---- MODULE Spec2Model ----
(***************************************************************************)
(* Model of the MPF host runtime: MenuService (host/src/menu_service.cpp), *)
(* NavigationService (navigation_service.cpp), the deep-copy helpers of    *)
(* cross_dll_safety.h and the plugin start-up sequence of                  *)
(* Application::loadPlugins (host/src/application.cpp).                    *)
(*                                                                         *)
(* A QString is a record [chars, heap]: chars is the sequence of UTF-16    *)
(* code units, heap names the binary unit whose allocator owns the         *)
(* buffer ("plugin", "host") or "null" for a string without a buffer.      *)
(***************************************************************************)
EXTENDS Integers, Sequences, FiniteSets, TLC

VARIABLES
    m_items,        \* MenuService::m_items, QList<MenuItem>
    m_indexMap,     \* MenuService::m_indexMap, id (chars) -> 0-based index
    menuChanged,    \* the list a handler reads at each menuChanged emitted by the last call
    m_routes,       \* NavigationService::m_routes, QList<RouteEntry>
    m_currentRoute, \* NavigationService::m_currentRoute
    navigationChanged, \* routes carried by the navigationChanged signals of the last call
    call,           \* the last service call: [op, arg, updates]
    ret,            \* what the last call returned: [ok, list, str]
    registered,     \* history: items passed to the successful registerItem calls, in order
    onlyRegistered, \* history: no other mutating menu call has been made so far
    routeLog,       \* history: the (pattern, pageUrl) arguments of registerRoute, in order
    appPc,          \* position of the host in Application::initialize / loadPlugins
    modState,       \* PluginManager: lifecycle state of each module
    modQueue,       \* PluginManager: modules still to be visited by the running batch
    phaseResult,    \* PluginManager: aggregate flag of loadAll / initializeAll / startAll
    modFault,       \* the step at which each module binary fails ("none": it never does)
    m_pluginManager,    \* Application::m_pluginManager is set
    m_extraPluginPaths, \* Application::m_extraPluginPaths, from MPF_PLUGIN_PATH
    pluginDirs,     \* the module ids found in each plugin directory
    pathQueue,      \* loadPlugins: the paths still to be handed to discover
    modSource,      \* PluginManager: the path each recorded module was discovered in
    rejected,       \* PluginManager: the (module, path) pairs discover has rejected
    registry,       \* ServiceRegistry: the bindings, in the order they were added
    regRet,         \* ServiceRegistry: the last call and its result
    pmCalls,        \* the calls made to the PluginManager, in order
    stepLog,        \* the module steps run by the batches, in order
    missed,         \* host capabilities a module found absent in initialize or start
    todo,           \* ~Application: the calls still to be made
    copyIn,         \* deepCopy: the value handed over by the plugin
    copyOut,        \* deepCopy: deepCopy(copyIn)
    copyAgain,      \* deepCopy: deepCopy(copyOut)
    returned,       \* the value a getter handed to its caller, with its storage
    routeData,      \* m_routes at the level of its memory: the slots of the array
    routeSize,      \* m_routes at the level of its memory: the size field
    threadPc,       \* where each calling thread is in its NavigationService call
    threadArg,      \* the (route, qmlPageUrl) arguments of each thread's call
    threadSlot,     \* the slot each appending thread has picked
    observed,       \* the entry the reading thread has found
    m_mutex,        \* MenuService::m_mutex: the thread that holds it, or "none"
    stack,          \* the MenuService calls each thread is in, outermost first
    blocked,        \* the threads that wait for a mutex they hold themselves
    unguarded,      \* m_items has been read or written without the mutex
    emittedLocked,  \* menuChanged has been emitted by a thread holding the mutex
    navigation,     \* the NavigationService object: its address, m_engine, times built
    rules,          \* the RulesPlugin object: m_registry, m_ordersService, its handler
    pageFound,      \* registerRoutes has found RulesPage.qml in a QML search path
    crashed         \* a module has called through a null service pointer

menuVars == <<m_items, m_indexMap, menuChanged, registered, onlyRegistered>>
navVars == <<m_routes, m_currentRoute, navigationChanged, routeLog>>
appVars == <<appPc, modState, modQueue, phaseResult, modFault, m_pluginManager,
             m_extraPluginPaths, pluginDirs, pathQueue, modSource, rejected,
             registry, regRet, pmCalls, stepLog, missed, todo>>
copyVars == <<copyIn, copyOut, copyAgain>>
raceVars == <<routeData, routeSize, threadPc, threadArg, threadSlot, observed>>
lockVars == <<m_mutex, stack, blocked, unguarded, emittedLocked>>
moduleVars == <<navigation, rules, pageFound, crashed>>
libVars == <<copyVars, returned, raceVars, lockVars, moduleVars>>
vars == <<m_items, m_indexMap, menuChanged, m_routes, m_currentRoute,
          navigationChanged, call, ret, registered, onlyRegistered, routeLog,
          appPc, modState, modQueue, phaseResult, modFault, m_pluginManager,
          m_extraPluginPaths, pluginDirs, pathQueue, modSource, rejected,
          registry, regRet, pmCalls, stepLog, missed, todo,
          copyIn, copyOut, copyAgain, returned,
          routeData, routeSize, threadPc, threadArg, threadSlot, observed,
          m_mutex, stack, blocked, unguarded, emittedLocked,
          navigation, rules, pageFound, crashed>>

-----------------------------------------------------------------------------
(* Bounds *)

MaxRoutes == 3

\* Nesting depth of the values handed to deepCopy.
MaxDepth == 2

\* How deep the calls of one thread into the MenuService nest: a call, and
\* the calls its menuChanged handler makes while it is being notified.
MaxNesting == 2

-----------------------------------------------------------------------------
(* QString *)

NullStr == [chars |-> <<>>, heap |-> "null"]

\* A QString built by a plugin: its buffer, if any, lives in the plugin's heap.
PluginStr(c) == IF c = <<>> THEN NullStr ELSE [chars |-> c, heap |-> "plugin"]

\* A QString built by host code (literals, conversions).
HostStr(c) == IF c = <<>> THEN NullStr ELSE [chars |-> c, heap |-> "host"]

isEmpty(str) == Len(str.chars) = 0

\* QString::operator== compares the characters, not the buffers.
StrEq(a, b) == a.chars = b.chars

\* QString::operator< : lexicographic on the code units, a proper prefix is less.
RECURSIVE CharsLess(_, _)
CharsLess(a, b) ==
    IF b = <<>> THEN FALSE
    ELSE IF a = <<>> THEN TRUE
    ELSE IF Head(a) # Head(b) THEN Head(a) < Head(b)
    ELSE CharsLess(Tail(a), Tail(b))

StrLess(a, b) == CharsLess(a.chars, b.chars)

\* CrossDllSafety::deepCopy(const QString&): a new buffer, filled unit by unit.
deepCopy(str) ==
    IF isEmpty(str) THEN NullStr
    ELSE [chars |-> [i \in 1..Len(str.chars) |-> str.chars[i]], heap |-> "host"]

-----------------------------------------------------------------------------
(* Values with their storage.  A value that crosses the plugin boundary is *)
(* a tree of nodes [kind, data, buf, elems]: data holds the code units of  *)
(* a string, the bytes of a byte array or the number of a scalar; elems    *)
(* holds the elements of a container; buf names the buffer that backs the  *)
(* node (NoBuf: none).  A buffer allocated by a deepCopy call is named by  *)
(* the call and by the place in the result it was allocated for.           *)

Node(kind, data, buf, elems) == [kind |-> kind, data |-> data, buf |-> buf, elems |-> elems]

NoBuf == <<>>
PluginBuf == <<0>>

NoValue == Node("none", <<>>, NoBuf, <<>>)

\* CrossDllSafety::deepCopy(const QString&)
deepCopyQString(str, at) ==
    IF str.data = <<>> THEN Node("QString", <<>>, NoBuf, <<>>)
    ELSE Node("QString", [i \in 1..Len(str.data) |-> str.data[i]], at, <<>>)

\* CrossDllSafety::deepCopy(const QStringList&)
deepCopyQStringList(list, at) ==
    Node("QStringList", <<>>, IF list.elems = <<>> THEN NoBuf ELSE at,
         [i \in 1..Len(list.elems) |-> deepCopyQString(list.elems[i], at \o <<i>>)])

\* CrossDllSafety::deepCopy(const QByteArray&)
deepCopyQByteArray(data, at) ==
    IF data.data = <<>> THEN Node("QByteArray", <<>>, NoBuf, <<>>)
    ELSE Node("QByteArray", [i \in 1..Len(data.data) |-> data.data[i]], at, <<>>)

\* QMap::insert(key, value): the entries stay ordered by key, an equal key is replaced.
RECURSIVE insert(_, _)
insert(entries, entry) ==
    IF entries = <<>> THEN <<entry>>
    ELSE LET k == Head(entries).elems[1].data
             n == entry.elems[1].data
         IN IF k = n THEN <<entry>> \o Tail(entries)
            ELSE IF CharsLess(n, k) THEN <<entry>> \o entries
            ELSE <<Head(entries)>> \o insert(Tail(entries), entry)

\* A list copied as a whole: a buffer of its own, the elements shared.
deepCopyQVariantListShallow(list, at) ==
    Node("QVariantList", <<>>, IF list.elems = <<>> THEN NoBuf ELSE at, list.elems)

RECURSIVE deepCopyQVariant(_, _)
RECURSIVE deepCopyQVariantMap(_, _)
RECURSIVE deepCopyQVariantList(_, _)
RECURSIVE CopyEntries(_, _, _)

\* The loop of deepCopy(const QVariantMap&): entries i.. of the map, inserted in turn.
CopyEntries(entries, i, at) ==
    IF i = 0 THEN <<>>
    ELSE insert(CopyEntries(entries, i - 1, at),
                Node("entry", <<>>, at \o <<i>>,
                     << deepCopyQString(entries[i].elems[1], at \o <<i, 1>>),
                        deepCopyQVariant(entries[i].elems[2], at \o <<i, 2>>) >>))

\* CrossDllSafety::deepCopy(const QVariantMap&)
deepCopyQVariantMap(map, at) ==
    Node("QVariantMap", <<>>, IF map.elems = <<>> THEN NoBuf ELSE at,
         CopyEntries(map.elems, Len(map.elems), at))

\* CrossDllSafety::deepCopy(const QVariantList&)
deepCopyQVariantList(list, at) ==
    Node("QVariantList", <<>>, IF list.elems = <<>> THEN NoBuf ELSE at,
         [i \in 1..Len(list.elems) |-> deepCopyQVariant(list.elems[i], at \o <<i>>)])

\* CrossDllSafety::deepCopy(const QVariant&)
deepCopyQVariant(var, at) ==
    IF var.kind = "invalid" THEN Node("invalid", <<>>, NoBuf, <<>>)
    ELSE CASE var.kind = "QString" -> deepCopyQString(var, at)
           [] var.kind = "QStringList" -> deepCopyQStringList(var, at)
           [] var.kind = "QByteArray" -> deepCopyQByteArray(var, at)
           [] var.kind = "QVariantMap" -> deepCopyQVariantMap(var, at)
           [] var.kind = "QVariantList" -> deepCopyQVariantList(var, at)
           [] OTHER -> var

-----------------------------------------------------------------------------
(* QVariant, as far as updateItem reads it *)

Invalid == [type |-> "invalid", s |-> NullStr, i |-> 0, b |-> FALSE]
VString(str) == [type |-> "QString", s |-> str, i |-> 0, b |-> FALSE]
VInt(n) == [type |-> "int", s |-> NullStr, i |-> n, b |-> FALSE]
VBool(x) == [type |-> "bool", s |-> NullStr, i |-> 0, b |-> x]

CharsTrue == <<116, 114, 117, 101>>
CharsFalse == <<102, 97, 108, 115, 101>>

\* QVariant::toString(): a QString variant hands out its own (shared) string,
\* the other types are formatted into a new string by the host.
toString(v) ==
    CASE v.type = "QString" -> v.s
      [] v.type = "int" -> HostStr(<<48 + v.i>>)
      [] v.type = "bool" -> HostStr(IF v.b THEN CharsTrue ELSE CharsFalse)
      [] OTHER -> NullStr

toInt(v) ==
    CASE v.type = "int" -> v.i
      [] v.type = "bool" -> IF v.b THEN 1 ELSE 0
      [] v.type = "QString" ->
            IF Len(v.s.chars) = 1 /\ v.s.chars[1] \in 48..57
            THEN v.s.chars[1] - 48 ELSE 0
      [] OTHER -> 0

toBool(v) ==
    CASE v.type = "bool" -> v.b
      [] v.type = "int" -> v.i # 0
      [] v.type = "QString" ->
            ~(v.s.chars = <<>> \/ v.s.chars = <<48>> \/ v.s.chars = CharsFalse)
      [] OTHER -> FALSE

\* QVariantMap::contains and the const operator[] (a default QVariant on a miss).
contains(updates, key) == key \in DOMAIN updates
value(updates, key) == IF key \in DOMAIN updates THEN updates[key] ELSE Invalid

NoUpdates == [k \in {} |-> Invalid]

-----------------------------------------------------------------------------
(* MenuItem *)

\* static deepCopyItem: every string field through deepCopy, order and enabled by value.
deepCopyItem(item) ==
    [id |-> deepCopy(item.id),
     label |-> deepCopy(item.label),
     icon |-> deepCopy(item.icon),
     route |-> deepCopy(item.route),
     group |-> deepCopy(item.group),
     order |-> item.order,
     enabled |-> item.enabled,
     badge |-> deepCopy(item.badge),
     pluginId |-> deepCopy(item.pluginId)]

\* The value of an item, whatever buffers hold it.
ItemValue(item) ==
    [id |-> item.id.chars, label |-> item.label.chars, icon |-> item.icon.chars,
     route |-> item.route.chars, group |-> item.group.chars, order |-> item.order,
     enabled |-> item.enabled, badge |-> item.badge.chars,
     pluginId |-> item.pluginId.chars]

\* The comparator of sortItems: by group, then order, then label.
ItemLess(a, b) ==
    IF ~StrEq(a.group, b.group) THEN StrLess(a.group, b.group)
    ELSE IF a.order # b.order THEN a.order < b.order
    ELSE StrLess(a.label, b.label)

InsertBeforeEqual(sorted, x) ==
    LET before == SelectSeq(sorted, LAMBDA y : ItemLess(y, x))
        after == SelectSeq(sorted, LAMBDA y : ~ItemLess(y, x))
    IN before \o <<x>> \o after

\* Insert x behind every element that is not greater than it (stable).
RECURSIVE InsertStable(_, _)
InsertStable(sorted, x) ==
    IF sorted = <<>> THEN <<x>>
    ELSE IF ItemLess(x, Head(sorted)) THEN <<x>> \o sorted
    ELSE <<Head(sorted)>> \o InsertStable(Tail(sorted), x)

RECURSIVE StableSortFrom(_, _)
StableSortFrom(done, rest) ==
    IF rest = <<>> THEN done
    ELSE StableSortFrom(InsertStable(done, Head(rest)), Tail(rest))

\* MenuService::sortItems: std::stable_sort of m_items under ItemLess.
sortItems(items) == StableSortFrom(<<>>, items)

rebuildIndexStale(items, old) ==
    [k \in {items[i].id.chars : i \in 1..Len(items)} |->
        IF k \in DOMAIN old THEN old[k] ELSE Len(items) - 1]

\* "m_indexMap.clear(); for (i...) m_indexMap[m_items[i].id] = i;"
\* The loop runs in ascending i, so a repeated id keeps its last position.
rebuildIndex(items, old) ==
    [k \in {items[i].id.chars : i \in 1..Len(items)} |->
        CHOOSE j \in 0..(Len(items) - 1) :
            /\ items[j + 1].id.chars = k
            /\ \A l \in 0..(Len(items) - 1) : items[l + 1].id.chars = k => l <= j]

-----------------------------------------------------------------------------
(* MenuService operations, as functions of (m_items, m_indexMap).          *)
(* Each returns [items, index, ok, emit]: the new list and index map, the  *)
(* return value, and the list a handler of menuChanged reads at each       *)
(* emission (the lock is released before "emit", so it reads the list as   *)
(* it is at that line).                                                    *)

Result(items, index, ok, emit) ==
    [items |-> items, index |-> index, ok |-> ok, emit |-> emit]

registerItemOverwrite(items, index, item) ==
    IF isEmpty(item.id) THEN Result(items, index, FALSE, <<>>)
    ELSE LET kept == SelectSeq(items, LAMBDA x : ~StrEq(x.id, item.id))
             sorted == sortItems(Append(kept, deepCopyItem(item)))
         IN Result(sorted, rebuildIndex(sorted, index), TRUE, <<sorted>>)

\* MenuService::registerItem
registerItem(items, index, item) ==
    IF isEmpty(item.id) THEN Result(items, index, FALSE, <<>>)
    ELSE IF item.id.chars \in DOMAIN index THEN Result(items, index, FALSE, <<>>)
    ELSE LET appended == Append(items, deepCopyItem(item))
             sorted == sortItems(appended)
         IN Result(sorted, rebuildIndex(sorted, index), TRUE, <<sorted>>)

\* std::find_if: the 1-based position of the first item with that id, 0 for end().
FindIf(items, id) ==
    IF \E i \in 1..Len(items) : StrEq(items[i].id, id)
    THEN CHOOSE i \in 1..Len(items) :
            /\ StrEq(items[i].id, id)
            /\ \A j \in 1..(i - 1) : ~StrEq(items[j].id, id)
    ELSE 0

\* QList::erase(it)
Erase(items, pos) ==
    [i \in 1..(Len(items) - 1) |-> IF i < pos THEN items[i] ELSE items[i + 1]]

\* MenuService::unregisterItem
unregisterItem(items, index, id) ==
    LET it == FindIf(items, id)
    IN IF it # 0
       THEN LET erased == Erase(items, it)
            IN Result(erased, rebuildIndex(erased, index), TRUE, <<erased>>)
       ELSE Result(items, index, TRUE, <<>>)

\* std::remove_if followed by erase(it, end): the items that do not match,
\* shifted to the front in their order.
RECURSIVE RemoveIf(_, _)
RemoveIf(items, pluginId) ==
    IF items = <<>> THEN <<>>
    ELSE IF StrEq(Head(items).pluginId, pluginId) THEN RemoveIf(Tail(items), pluginId)
    ELSE <<Head(items)>> \o RemoveIf(Tail(items), pluginId)

unregisterPluginFirstOnly(items, index, pluginId) ==
    LET hit == {i \in 1..Len(items) : StrEq(items[i].pluginId, pluginId)}
    IN IF hit # {}
       THEN LET erased == Erase(items, CHOOSE i \in hit : \A j \in hit : i <= j)
            IN Result(erased, rebuildIndex(erased, index), TRUE, <<erased>>)
       ELSE Result(items, index, TRUE, <<>>)

\* MenuService::unregisterPlugin
unregisterPlugin(items, index, pluginId) ==
    LET kept == RemoveIf(items, pluginId)
    IN IF Len(kept) # Len(items)
       THEN Result(kept, rebuildIndex(kept, index), TRUE, <<kept>>)
       ELSE Result(items, index, TRUE, <<>>)

updateItemSilent(items, index, id, updates) ==
    IF id.chars \notin DOMAIN index THEN Result(items, index, FALSE, <<>>)
    ELSE LET slot == index[id.chars] + 1
             s == IF contains(updates, "badge")
                  THEN [items EXCEPT ![slot].badge = toString(value(updates, "badge"))]
                  ELSE items
         IN Result(s, index, TRUE, <<>>)

updateItemAbsentEmits(items, index, id, updates) ==
    Result(items, index, TRUE, <<items>>)

\* MenuService::updateItem.  "item" is a reference to the slot m_items[idx]:
\* after sortItems() the later assignments still go to that slot.
updateItem(items, index, id, updates) ==
    IF id.chars \notin DOMAIN index THEN Result(items, index, FALSE, <<>>)
    ELSE LET slot == index[id.chars] + 1
             s1 == IF contains(updates, "title")
                   THEN [items EXCEPT ![slot].label = toString(value(updates, "label"))]
                   ELSE items
             s2 == IF contains(updates, "icon")
                   THEN [s1 EXCEPT ![slot].icon = toString(value(updates, "icon"))]
                   ELSE s1
             s3 == IF contains(updates, "route")
                   THEN [s2 EXCEPT ![slot].route = toString(value(updates, "route"))]
                   ELSE s2
             s4 == IF contains(updates, "order")
                   THEN sortItems([s3 EXCEPT ![slot].order = toInt(value(updates, "order"))])
                   ELSE s3
             index4 == IF contains(updates, "order") THEN rebuildIndex(s4, index) ELSE index
             s5 == IF contains(updates, "enabled")
                   THEN [s4 EXCEPT ![slot].enabled = toBool(value(updates, "enabled"))]
                   ELSE s4
             s6 == IF contains(updates, "badge")
                   THEN [s5 EXCEPT ![slot].badge = toString(value(updates, "badge"))]
                   ELSE s5
             s7 == IF contains(updates, "group")
                   THEN [s6 EXCEPT ![slot].group = toString(value(updates, "group"))]
                   ELSE s6
         IN Result(s7, index4, TRUE, <<s7>>)

\* MenuService::setBadge: the map is built by the host, the QVariant in it
\* shares the caller's string.
setBadge(items, index, id, badge) ==
    updateItem(items, index, id, [k \in {"badge"} |-> VString(badge)])

\* MenuService::setEnabled
setEnabled(items, index, id, enabled) ==
    updateItem(items, index, id, [k \in {"enabled"} |-> VBool(enabled)])

\* MenuService::items: a deep copy of every item, in list order.
items(list) == [i \in 1..Len(list) |-> deepCopyItem(list[i])]

-----------------------------------------------------------------------------
(* What the plugins pass in *)

IdA == <<97>>
IdB == <<98>>
IdC == <<99>>
Ids == {IdA, IdB, IdC}

PluginP == <<112>>
PluginQ == <<113>>
PluginIds == {PluginP, PluginQ}

GroupA == <<65>>
GroupB == <<66>>
GroupC == <<67>>
Groups == {GroupA, GroupB}
Orders == {1, 2}

LabelL == <<76>>
LabelM == <<77>>
Badge7 == <<55>>

\* Each id belongs to one plugin and comes with one label; a and c share both.
OwnerOf(id) == IF id = IdB THEN PluginQ ELSE PluginP
LabelOf(id) == IF id = IdB THEN LabelM ELSE LabelL

\* A MenuItem as a plugin fills it in (as RulesPlugin::registerRoutes does):
\* enabled, no badge, every string in the plugin's heap.
PluginItem(id, group, order) ==
    [id |-> PluginStr(id),
     label |-> PluginStr(LabelOf(id)),
     icon |-> PluginStr(<<73>>),
     route |-> PluginStr(<<114>>),
     group |-> PluginStr(group),
     order |-> order,
     enabled |-> TRUE,
     badge |-> NullStr,
     pluginId |-> PluginStr(OwnerOf(id))]

PluginItems == {PluginItem(id, g, o) : id \in Ids \cup {<<>>}, g \in Groups, o \in Orders}

\* The update maps the plugins pass to updateItem.
UpdateMaps ==
    { NoUpdates,
      [k \in {"order"} |-> VInt(1)],
      [k \in {"order"} |-> VInt(2)],
      [k \in {"group"} |-> VString(PluginStr(GroupC))],
      [k \in {"order", "group"} |->
            IF k = "order" THEN VInt(2) ELSE VString(PluginStr(GroupC))] }

\* Plugin p puts badges on its items, plugin q enables and disables its own.
BadgedIds == {id \in Ids : OwnerOf(id) = PluginP}
SwitchedIds == {id \in Ids : OwnerOf(id) = PluginQ}

Call(op, arg, updates) == [op |-> op, arg |-> arg, updates |-> updates]
Ret(ok, list, str) == [ok |-> ok, list |-> list, str |-> str]

-----------------------------------------------------------------------------
(* Initial state: the services as constructed, no plugin manager yet *)

Modules == {"A", "B", "C"}
Phases == {"load", "initialize", "start"}

ServicesInit ==
    /\ m_items = <<>>
    /\ m_indexMap = [k \in {} |-> 0]
    /\ menuChanged = <<>>
    /\ m_routes = <<>>
    /\ m_currentRoute = NullStr
    /\ navigationChanged = <<>>
    /\ call = Call("none", <<>>, NoUpdates)
    /\ ret = Ret(TRUE, <<>>, NullStr)
    /\ registered = <<>>
    /\ onlyRegistered = TRUE
    /\ routeLog = <<>>

Paths == {"X1", "X2", "D"}

NoRegistryCall == [op |-> "none", cap |-> "", ok |-> TRUE, inst |-> ""]

HostInit ==
    /\ appPc = "constructed"
    /\ modState = [m \in Modules |-> "Undiscovered"]
    /\ modQueue = <<>>
    /\ phaseResult = [p \in Phases |-> "notrun"]
    /\ m_pluginManager = FALSE
    /\ pathQueue = <<>>
    /\ modSource = [m \in Modules |-> "none"]
    /\ rejected = {}
    /\ registry = <<>>
    /\ regRet = NoRegistryCall
    /\ pmCalls = <<>>
    /\ stepLog = <<>>
    /\ missed = {}
    /\ todo = <<>>

\* MPF_PLUGIN_PATH is not set and every module lies in the default directory.
PlainInstall ==
    /\ m_extraPluginPaths = <<>>
    /\ pluginDirs = [p \in Paths |-> IF p = "D" THEN Modules ELSE {}]

Threads == {"t1", "t2", "t3"}

NoEntry == [pattern |-> <<>>, pageUrl |-> <<>>]

Callers == {"ui", "worker"}

\* No thread is in a MenuService call.
LockIdle ==
    /\ m_mutex = "none"
    /\ stack = [t \in Callers |-> <<>>]
    /\ blocked = {}
    /\ unguarded = FALSE
    /\ emittedLocked = FALSE

\* The RulesPlugin object as constructed, and what is left of it once it
\* is destroyed: nothing set, nothing connected.
NoRules == [m_registry |-> FALSE, m_ordersService |-> FALSE, orders |-> 0, connected |-> FALSE]

\* "new NavigationService(nullptr, this)" has not run yet; no module is loaded.
ModuleIdle ==
    /\ navigation = [address |-> "", m_engine |-> FALSE, built |-> 0]
    /\ rules = NoRules
    /\ pageFound = TRUE
    /\ crashed = FALSE

\* No value is being copied or held by a caller, no thread is in a
\* NavigationService call.
LibIdle ==
    /\ LockIdle
    /\ ModuleIdle
    /\ copyIn = NoValue
    /\ copyOut = NoValue
    /\ copyAgain = NoValue
    /\ returned = NoValue
    /\ routeData = [i \in 1..2 |-> NoEntry]
    /\ routeSize = 0
    /\ threadPc = [t \in Threads |-> "idle"]
    /\ threadArg = [t \in Threads |-> NoEntry]
    /\ threadSlot = [t \in Threads |-> 0]
    /\ observed = NoEntry


\* The services with healthy module binaries around them.
Init ==
    /\ ServicesInit
    /\ HostInit
    /\ PlainInstall
    /\ LibIdle
    /\ modFault = [m \in Modules |-> "none"]

-----------------------------------------------------------------------------
(* Menu actions: one call of a plugin into the MenuService *)

\* The effect of a mutating call other than registerItem on the history.
Mutated ==
    /\ registered' = <<>>
    /\ onlyRegistered' = FALSE

Apply(r) ==
    /\ m_items' = r.items
    /\ m_indexMap' = r.index
    /\ menuChanged' = r.emit

RegisterItemOf(offered) ==
    \E item \in offered :
        LET r == registerItem(m_items, m_indexMap, item)
        IN /\ Apply(r)
           /\ call' = Call("registerItem", item.id.chars, NoUpdates)
           /\ ret' = Ret(r.ok, <<>>, NullStr)
           /\ registered' = IF r.ok /\ onlyRegistered
                            THEN Append(registered, item) ELSE registered
           /\ UNCHANGED <<onlyRegistered, navVars, appVars, libVars>>

RegisterItem == RegisterItemOf(PluginItems)

UnregisterItem ==
    \E id \in Ids :
        LET r == unregisterItem(m_items, m_indexMap, PluginStr(id))
        IN /\ Apply(r)
           /\ call' = Call("unregisterItem", id, NoUpdates)
           /\ ret' = Ret(TRUE, <<>>, NullStr)
           /\ Mutated
           /\ UNCHANGED <<navVars, appVars, libVars>>

UnregisterPlugin ==
    \E pluginId \in PluginIds :
        LET r == unregisterPlugin(m_items, m_indexMap, PluginStr(pluginId))
        IN /\ Apply(r)
           /\ call' = Call("unregisterPlugin", pluginId, NoUpdates)
           /\ ret' = Ret(TRUE, <<>>, NullStr)
           /\ Mutated
           /\ UNCHANGED <<navVars, appVars, libVars>>

UpdateItemOf(ids, maps) ==
    \E id \in ids, updates \in maps :
        LET r == updateItem(m_items, m_indexMap, PluginStr(id), updates)
        IN /\ Apply(r)
           /\ call' = Call("updateItem", id, updates)
           /\ ret' = Ret(r.ok, <<>>, NullStr)
           /\ Mutated
           /\ UNCHANGED <<navVars, appVars, libVars>>

UpdateItem == UpdateItemOf(Ids, UpdateMaps)

SetBadgeOf(ids, badges) ==
    \E id \in ids, badge \in badges :
        LET r == setBadge(m_items, m_indexMap, PluginStr(id), PluginStr(badge))
        IN /\ Apply(r)
           /\ call' = Call("setBadge", id, NoUpdates)
           /\ ret' = Ret(TRUE, <<>>, NullStr)
           /\ Mutated
           /\ UNCHANGED <<navVars, appVars, libVars>>

SetBadge == SetBadgeOf(BadgedIds, {<<>>, Badge7})

SetEnabledOf(ids) ==
    \E id \in ids, enabled \in BOOLEAN :
        LET r == setEnabled(m_items, m_indexMap, PluginStr(id), enabled)
        IN /\ Apply(r)
           /\ call' = Call("setEnabled", id, NoUpdates)
           /\ ret' = Ret(TRUE, <<>>, NullStr)
           /\ Mutated
           /\ UNCHANGED <<navVars, appVars, libVars>>

SetEnabled == SetEnabledOf(SwitchedIds)

GetItems ==
    /\ call' = Call("items", <<>>, NoUpdates)
    /\ ret' = Ret(TRUE, items(m_items), NullStr)
    /\ menuChanged' = <<>>
    /\ UNCHANGED <<m_items, m_indexMap, registered, onlyRegistered, navVars, appVars, libVars>>

Next ==
    \/ RegisterItem
    \/ UnregisterItem
    \/ UnregisterPlugin
    \/ UpdateItem
    \/ SetBadge
    \/ SetEnabled
    \/ GetItems

Spec == Init /\ [][Next]_vars

-----------------------------------------------------------------------------
(* Properties of the MenuService *)

ItemStrings(item) ==
    {item.id, item.label, item.icon, item.route, item.group, item.badge, item.pluginId}

\* Every string kept by the two services.
StoredStrings ==
    UNION {ItemStrings(m_items[i]) : i \in 1..Len(m_items)}
    \cup {m_routes[i].pattern : i \in 1..Len(m_routes)}
    \cup {m_routes[i].pageUrl : i \in 1..Len(m_routes)}
    \cup {m_currentRoute}

\* C2: every string the host services keep was deep-copied by the host before
\* it was stored, so none of them lives in a buffer of the calling plugin.
C2_StoredStringsAreHostCopies == \A str \in StoredStrings : str.heap # "plugin"

\* The sort key of the menu: (group, order, label), compared left to right.
KeyLess(a, b) ==
    \/ CharsLess(a.group.chars, b.group.chars)
    \/ /\ a.group.chars = b.group.chars
       /\ a.order < b.order
    \/ /\ a.group.chars = b.group.chars
       /\ a.order = b.order
       /\ CharsLess(a.label.chars, b.label.chars)

SortedByKey(list) == \A i \in 1..(Len(list) - 1) : ~KeyLess(list[i + 1], list[i])

\* C3: after any sequence of menu calls the item list is sorted in ascending
\* order of (group, order, label).
C3_ItemsSorted == SortedByKey(m_items)

\* Position of the registration of the item with this id.
RegisteredAt(id) == CHOOSE i \in 1..Len(registered) : registered[i].id.chars = id

\* C4: after successful registerItem calls only, items() returns exactly the
\* registered items, each once, in ascending (group, order, label) order, and
\* items with equal keys in the order of their registration.
C4_ItemsAreRegisteredSorted ==
    (call.op = "items" /\ onlyRegistered) =>
        /\ Len(ret.list) = Len(registered)
        /\ \A i \in 1..Len(registered) :
              Cardinality({j \in 1..Len(ret.list) :
                              ItemValue(ret.list[j]) = ItemValue(registered[i])}) = 1
        /\ SortedByKey(ret.list)
        /\ \A i, j \in 1..Len(ret.list) :
              (i < j /\ ~KeyLess(ret.list[i], ret.list[j]))
                  => RegisteredAt(ret.list[i].id.chars) < RegisteredAt(ret.list[j].id.chars)

KeyOf(item) == <<item.group.chars, item.order>>

\* The example of the specification: (B,1), (A,2), (A,1) come back A/1, A/2, B/1.
C4_Witness ==
    /\ call.op = "items"
    /\ onlyRegistered
    /\ [i \in 1..Len(registered) |-> KeyOf(registered[i])]
          = <<<<GroupB, 1>>, <<GroupA, 2>>, <<GroupA, 1>>>>
    /\ [i \in 1..Len(ret.list) |-> KeyOf(ret.list[i])]
          = <<<<GroupA, 1>>, <<GroupA, 2>>, <<GroupB, 1>>>>

HasId(list, id) == \E i \in 1..Len(list) : list[i].id.chars = id

\* C5: registerItem with an empty id or an id already in the menu returns
\* false, leaves the list and the index map as they were and emits nothing.
C5_RegisterRejected ==
    [][(call'.op = "registerItem" /\ (call'.arg = <<>> \/ HasId(m_items, call'.arg)))
          => /\ ret'.ok = FALSE
             /\ m_items' = m_items
             /\ m_indexMap' = m_indexMap
             /\ menuChanged' = <<>>]_vars

\* A duplicate id has just been refused while its first item is in the menu.
C5_Witness ==
    /\ call.op = "registerItem"
    /\ ret.ok = FALSE
    /\ call.arg # <<>>
    /\ HasId(m_items, call.arg)
    /\ Len(m_items) >= 2

\* C6: the ids in the list are non-empty and pairwise distinct, and the index
\* map holds exactly those ids, each with the current position of its item.
C6_IndexMapExact ==
    /\ \A i \in 1..Len(m_items) : m_items[i].id.chars # <<>>
    /\ \A i, j \in 1..Len(m_items) :
          m_items[i].id.chars = m_items[j].id.chars => i = j
    /\ DOMAIN m_indexMap = {m_items[i].id.chars : i \in 1..Len(m_items)}
    /\ \A i \in 1..Len(m_items) : m_indexMap[m_items[i].id.chars] = i - 1

\* An update of "order" has just moved an item of a full menu to the last position.
C6_Witness ==
    /\ call.op = "updateItem"
    /\ contains(call.updates, "order")
    /\ Len(m_items) = 3
    /\ m_items[3].id.chars = call.arg
    /\ m_items[3].order = 2
    /\ m_items[1].group.chars = m_items[3].group.chars

\* C7: unregisterPlugin(ownerId) removes exactly the items of that owner; the
\* items of other owners stay, unchanged and in their order.
C7_UnregisterPluginExact ==
    [][call'.op = "unregisterPlugin"
          => m_items' = SelectSeq(m_items, LAMBDA x : x.pluginId.chars # call'.arg)]_vars

\* Plugin p has just been removed and the item of q is what is left.
C7_Witness ==
    /\ call.op = "unregisterPlugin"
    /\ call.arg = PluginP
    /\ menuChanged # <<>>
    /\ Len(m_items) = 1
    /\ m_items[1].pluginId.chars = PluginQ

\* C8: every call that changes the item list emits menuChanged, and a handler
\* of that notification already reads the changed list.
C8_ChangeIsNotified ==
    [][m_items' # m_items => menuChanged' = <<m_items'>>]_vars

\* setBadge has just changed a badge and notified it.
C8_Witness ==
    /\ call.op = "setBadge"
    /\ menuChanged = <<m_items>>
    /\ \E i \in 1..Len(m_items) :
          m_items[i].id.chars = call.arg /\ m_items[i].badge.chars = Badge7

\* C20: updateItem for an existing id changes no other item: every item
\* with another id is in the list after the call with all its fields as before.
C20_UpdateChangesOnlyItsItem ==
    [][ (call'.op = "updateItem" /\ HasId(m_items, call'.arg))
            => \A i \in 1..Len(m_items) :
                  m_items[i].id.chars # call'.arg
                      => \E j \in 1..Len(m_items') : m_items'[j] = m_items[i] ]_vars

-----------------------------------------------------------------------------
(* NavigationService operations *)

\* NavigationService::registerRoute: append a deep copy of both strings.
registerRoute(routes, route, qmlPageUrl) ==
    LET entry == [pattern |-> deepCopy(route), pageUrl |-> deepCopy(qmlPageUrl)]
    IN Append(routes, entry)

\* QString::startsWith
RECURSIVE StartsWith(_, _)
StartsWith(chars, prefix) ==
    IF prefix = <<>> THEN TRUE
    ELSE IF chars = <<>> THEN FALSE
    ELSE Head(chars) = Head(prefix) /\ StartsWith(Tail(chars), Tail(prefix))

RECURSIVE getPageUrlByPrefix(_, _)
getPageUrlByPrefix(routes, route) ==
    IF routes = <<>> THEN NullStr
    ELSE IF StartsWith(Head(routes).pattern.chars, route.chars)
         THEN deepCopy(Head(routes).pageUrl)
         ELSE getPageUrlByPrefix(Tail(routes), route)

RECURSIVE getPageUrlLast(_, _)
getPageUrlLast(routes, route) ==
    IF routes = <<>> THEN NullStr
    ELSE IF StrEq(routes[Len(routes)].pattern, route)
         THEN deepCopy(routes[Len(routes)].pageUrl)
         ELSE getPageUrlLast(SubSeq(routes, 1, Len(routes) - 1), route)

\* NavigationService::getPageUrl: the loop over m_routes returns at the first
\* entry whose pattern equals the route; QString() after the loop.
RECURSIVE getPageUrl(_, _)
getPageUrl(routes, route) ==
    IF routes = <<>> THEN NullStr
    ELSE IF StrEq(Head(routes).pattern, route)
         THEN deepCopy(Head(routes).pageUrl)
         ELSE getPageUrl(Tail(routes), route)

\* NavigationService::currentRoute
currentRoute(current) == deepCopy(current)

\* setCurrentRoute without the comparison: every call assigns and emits.
setCurrentRouteAlways(current, route) ==
    [current |-> deepCopy(route), emit |-> <<deepCopy(route)>>]

\* NavigationService::setCurrentRoute: [current, emit], emit holding the route
\* of the navigationChanged signal if one is emitted.
setCurrentRoute(current, route) ==
    LET routeCopy == deepCopy(route)
    IN IF ~StrEq(current, routeCopy)
       THEN [current |-> routeCopy, emit |-> <<routeCopy>>]
       ELSE [current |-> current, emit |-> <<>>]

-----------------------------------------------------------------------------
(* Navigation actions: one call of a plugin or of the shell *)

RouteR == <<114>>
RouteRS == <<114, 115>>
RouteX == <<120>>
Patterns == {RouteR, RouteRS}
Lookups == Patterns \cup {RouteX, <<>>}

Url1 == <<49>>
Url2 == <<50>>
Urls == {Url1, Url2, <<>>}

RegisterRouteOf(patterns, urls) ==
    /\ Len(m_routes) < MaxRoutes
    /\ \E route \in patterns, qmlPageUrl \in urls :
          /\ m_routes' = registerRoute(m_routes, PluginStr(route), PluginStr(qmlPageUrl))
          /\ routeLog' = Append(routeLog, <<route, qmlPageUrl>>)
          /\ call' = Call("registerRoute", route, NoUpdates)
          /\ ret' = Ret(TRUE, <<>>, NullStr)
    /\ navigationChanged' = <<>>
    /\ UNCHANGED <<m_currentRoute, menuVars, appVars, libVars>>

RegisterRoute == RegisterRouteOf(Patterns, Urls)

GetPageUrl ==
    /\ \E route \in Lookups :
          /\ call' = Call("getPageUrl", route, NoUpdates)
          /\ ret' = Ret(TRUE, <<>>, getPageUrl(m_routes, PluginStr(route)))
    /\ navigationChanged' = <<>>
    /\ UNCHANGED <<m_routes, m_currentRoute, routeLog, menuVars, appVars, libVars>>

CurrentRoute ==
    /\ call' = Call("currentRoute", <<>>, NoUpdates)
    /\ ret' = Ret(TRUE, <<>>, currentRoute(m_currentRoute))
    /\ navigationChanged' = <<>>
    /\ UNCHANGED <<m_routes, m_currentRoute, routeLog, menuVars, appVars, libVars>>

SetCurrentRouteOf(routes) ==
    /\ \E route \in routes :
          LET r == setCurrentRoute(m_currentRoute, PluginStr(route))
          IN /\ m_currentRoute' = r.current
             /\ navigationChanged' = r.emit
             /\ call' = Call("setCurrentRoute", route, NoUpdates)
             /\ ret' = Ret(TRUE, <<>>, NullStr)
    /\ UNCHANGED <<m_routes, routeLog, menuVars, appVars, libVars>>

SetCurrentRoute == SetCurrentRouteOf(Lookups)

NextNav ==
    \/ RegisterRoute
    \/ GetPageUrl
    \/ CurrentRoute
    \/ SetCurrentRoute

SpecNav == Init /\ [][NextNav]_vars

-----------------------------------------------------------------------------
(* Properties of the NavigationService *)

RegistrationsOf(route) == {i \in 1..Len(routeLog) : routeLog[i][1] = route}

EarliestOf(route) ==
    CHOOSE i \in RegistrationsOf(route) : \A j \in RegistrationsOf(route) : i <= j

\* C9: getPageUrl(p) returns the pageUrl of the earliest registerRoute call
\* whose pattern equals p; later registrations of p neither replace nor hide it.
C9_FirstRegistrationWins ==
    (call.op = "getPageUrl" /\ RegistrationsOf(call.arg) # {})
        => ret.str.chars = routeLog[EarliestOf(call.arg)][2]

\* A pattern registered twice with different pages has just been looked up.
C9_Witness ==
    /\ call.op = "getPageUrl"
    /\ \E i, j \in RegistrationsOf(call.arg) :
          i < j /\ routeLog[i][2] # routeLog[j][2] /\ routeLog[i][2] # <<>>
    /\ \E i \in 1..Len(routeLog) :
          /\ i < EarliestOf(call.arg)
          /\ StartsWith(routeLog[i][1], call.arg)
    /\ ret.str.chars = routeLog[EarliestOf(call.arg)][2]

NeverRegistered(route) == \A i \in 1..Len(m_routes) : m_routes[i].pattern.chars # route

\* C10: getPageUrl of a pattern that was never registered returns the empty
\* string and changes neither the route table nor the current route.
C10_LookupMiss ==
    [][(call'.op = "getPageUrl" /\ NeverRegistered(call'.arg))
          => /\ ret'.str = NullStr
             /\ m_routes' = m_routes
             /\ m_currentRoute' = m_currentRoute]_vars

\* A miss on "r" while "rs" is registered and a route is current.
C10_Witness ==
    /\ call.op = "getPageUrl"
    /\ call.arg = RouteR
    /\ NeverRegistered(RouteR)
    /\ \E i \in 1..Len(m_routes) :
          m_routes[i].pattern.chars = RouteRS /\ m_routes[i].pageUrl.chars # <<>>
    /\ m_currentRoute.chars = RouteR
    /\ ret.str = NullStr

-----------------------------------------------------------------------------
(* PluginManager: the batch operations of the lifecycle.  Each visits the  *)
(* modules in ascending priority, moves a module on when its step succeeds *)
(* and to Failed when it does not, and goes on with the next module; the   *)
(* batch returns true only if every step succeeded.                        *)

Priority == [m \in Modules |-> IF m = "A" THEN 10 ELSE IF m = "B" THEN 20 ELSE 30]

\* The modules in descending priority value.
RECURSIVE ByPriorityDescending(_)
ByPriorityDescending(mods) ==
    IF mods = {} THEN <<>>
    ELSE LET first == CHOOSE m \in mods : \A n \in mods : Priority[m] >= Priority[n]
         IN <<first>> \o ByPriorityDescending(mods \ {first})

RECURSIVE ByPriority(_)
ByPriority(mods) ==
    IF mods = {} THEN <<>>
    ELSE LET first == CHOOSE m \in mods : \A n \in mods : Priority[m] <= Priority[n]
         IN <<first>> \o ByPriority(mods \ {first})

\* The state a module must be in for a phase to visit it, and where it ends.
StateBefore(phase) ==
    CASE phase = "load" -> "Discovered"
      [] phase = "initialize" -> "Loaded"
      [] phase = "start" -> "Initialized"

StateAfter(phase) ==
    CASE phase = "load" -> "Loaded"
      [] phase = "initialize" -> "Initialized"
      [] phase = "start" -> "Started"

\* One module's step of a batch: [state, result].
BatchStep(phase, state, fault, result) ==
    IF state # StateBefore(phase) THEN [state |-> state, result |-> result]
    ELSE IF fault = phase THEN [state |-> "Failed", result |-> "false"]
    ELSE [state |-> StateAfter(phase), result |-> result]

\* C27: setCurrentRoute(r) emits navigationChanged, once and carrying r, exactly
\* when r differs from the current route, and currentRoute() returns r after
\* the call; with the route that is current already the call changes nothing
\* and emits nothing, and the same call made again after any call does so.
C27_SetCurrentRouteNotifiesChange ==
    [][call'.op = "setCurrentRoute" =>
          /\ (navigationChanged' # <<>>) <=> (m_currentRoute.chars # call'.arg)
          /\ navigationChanged' # <<>> =>
                 /\ Len(navigationChanged') = 1
                 /\ navigationChanged'[1].chars = call'.arg
          /\ currentRoute(m_currentRoute').chars = call'.arg
          /\ m_currentRoute.chars = call'.arg => m_currentRoute' = m_currentRoute
          /\ setCurrentRoute(m_currentRoute', PluginStr(call'.arg)) =
                 [current |-> m_currentRoute', emit |-> <<>>]
          /\ UNCHANGED <<m_routes, routeLog>>]_vars

\* The route that was set with a notification has been set once more.
C27_Witness ==
    /\ call.op = "setCurrentRoute"
    /\ call.arg # <<>>
    /\ m_currentRoute.chars = call.arg
    /\ navigationChanged = <<>>

-----------------------------------------------------------------------------
(* PluginManager: discovery and teardown *)

\* discover(path): a module id not yet recorded is recorded with this path; an
\* id recorded from another path is rejected; the same path again changes nothing.
discover(source, rej, found, path) ==
    [source |-> [m \in Modules |->
                    IF m \in found /\ source[m] = "none" THEN path ELSE source[m]],
     rejected |-> rej \cup {<<m, path>> : m \in {n \in found : source[n] \notin {"none", path}}}]

Reverse(seq) == [i \in 1..Len(seq) |-> seq[Len(seq) + 1 - i]]

\* stopAll visits the Started modules, unloadAll the Stopped and the Failed ones.
teardownStep(op, state) ==
    IF op = "stop" /\ state = "Started" THEN "Stopped"
    ELSE IF op = "unload" /\ state \in {"Stopped", "Failed"} THEN "Unloaded"
    ELSE state

-----------------------------------------------------------------------------
(* ServiceRegistry *)

Binding(cap, inst, owner) == [cap |-> cap, inst |-> inst, owner |-> owner]

Absent == Binding("", "", "")

bound(reg, cap) == \E i \in 1..Len(reg) : reg[i].cap = cap

\* add that replaces the binding of a capability already bound.
addReplacing(reg, binding) ==
    [reg |-> IF bound(reg, binding.cap)
             THEN [i \in 1..Len(reg) |-> IF reg[i].cap = binding.cap THEN binding ELSE reg[i]]
             ELSE Append(reg, binding),
     ok |-> TRUE]

\* add: refused (DuplicateCapability) if the capability is bound already.
add(reg, binding) ==
    IF bound(reg, binding.cap) THEN [reg |-> reg, ok |-> FALSE]
    ELSE [reg |-> Append(reg, binding), ok |-> TRUE]

\* get: the binding of the capability, or absent.
get(reg, cap) ==
    IF bound(reg, cap) THEN reg[CHOOSE i \in 1..Len(reg) : reg[i].cap = cap] ELSE Absent

removeAllForOwner(reg, owner) == SelectSeq(reg, LAMBDA b : b.owner # owner)

-----------------------------------------------------------------------------
(* RulesPlugin: the module with priority 20 *)

RulesModule == "B"

RulesId == <<114, 117, 108, 101, 115>>                      \* "rules"
RulesPluginId ==                                            \* "com.biiz.rules"
    <<99, 111, 109, 46, 98, 105, 105, 122, 46, 114, 117, 108, 101, 115>>
RulesPageUrl ==                                             \* "file:RulesPage.qml"
    <<102, 105, 108, 101, 58, 82, 117, 108, 101, 115, 80, 97, 103, 101, 46, 113, 109, 108>>

\* The MenuItem registerRoutes fills in.
RulesItem ==
    [id |-> PluginStr(RulesId),
     label |-> PluginStr(<<82, 117, 108, 101, 115>>),
     icon |-> PluginStr(<<55357, 56523>>),
     route |-> PluginStr(RulesId),
     group |-> PluginStr(<<66, 117, 115, 105, 110, 101, 115, 115>>),
     order |-> 20,
     enabled |-> TRUE,
     badge |-> NullStr,
     pluginId |-> PluginStr(RulesPluginId)]

\* QString::number of a small count, made by the plugin.
number(n) == PluginStr(<<48 + n>>)

\* The services as a module step finds and leaves them.
World(routes, list, index, emit) ==
    [routes |-> routes, items |-> list, index |-> index, emit |-> emit]

\* RulesPlugin::initialize: m_registry is kept, the orders service is created.
initialize(p) == [p EXCEPT !.m_registry = TRUE, !.m_ordersService = TRUE]

callsNavigationUnchecked(nav, found) == found

\* registerRoutes reaches "nav->registerRoute(...)": inside "if (nav)", and
\* not after the return taken when the page file is not found.
callsNavigation(nav, found) == nav # Absent /\ found

callsMenuAfterMiss(nav, menu, found) == menu # Absent

\* registerRoutes reaches "menu->registerItem(item)": inside "if (menu)",
\* unless it has returned because the page file was not found.
callsMenu(nav, menu, found) == menu # Absent /\ ~(nav # Absent /\ ~found)

\* The services with the menu as a setBadge call has left it.
Badged(w, b) == World(w.routes, b.items, b.index, b.emit)

\* registerRoutes, the part "if (nav) { ... }".
registerNavigation(calls, w) ==
    IF calls
    THEN [w EXCEPT !.routes = registerRoute(@, PluginStr(RulesId), PluginStr(RulesPageUrl))]
    ELSE w

\* registerRoutes, the part "if (menu) { ... }": r is what registerItem
\* returns; after a refusal nothing more is done, otherwise the badge is set
\* and the handler of ordersChanged is connected.
registerMenu(calls, orders, w, r) ==
    IF calls /\ r.ok
    THEN [world |-> Badged(w, setBadge(r.items, r.index, PluginStr(RulesId), number(orders))),
          connected |-> TRUE]
    ELSE [world |-> w, connected |-> FALSE]

\* A call through a pointer that is null.
Checked(part, nav, menu, found) ==
    [world |-> part.world,
     connected |-> part.connected,
     crashed |-> \/ callsNavigation(nav, found) /\ nav = Absent
                 \/ callsMenu(nav, menu, found) /\ menu = Absent]

\* RulesPlugin::registerRoutes.  The result says also whether the handler of
\* ordersChanged was connected and whether a null pointer was called through.
registerRoutes(reg, found, orders, w) ==
    Checked(registerMenu(callsMenu(get(reg, "INavigation"), get(reg, "IMenu"), found),
                         orders,
                         registerNavigation(callsNavigation(get(reg, "INavigation"), found), w),
                         registerItem(w.items, w.index, RulesItem)),
            get(reg, "INavigation"), get(reg, "IMenu"), found)

\* The handler of ordersChanged: "menu->setBadge("rules", ...)".
ordersChanged(connected, orders, w) ==
    IF connected
    THEN Badged(w, setBadge(w.items, w.index, PluginStr(RulesId), number(orders)))
    ELSE w

\* RulesPlugin::start after registerRoutes (r): two sample orders are created,
\* each notified to the handler, and true is returned.
Started(p, r) ==
    [world |-> ordersChanged(r.connected, p.orders + 2,
                             ordersChanged(r.connected, p.orders + 1, r.world)),
     plugin |-> [p EXCEPT !.orders = @ + 2, !.connected = r.connected],
     crashed |-> r.crashed \/ ~p.m_registry \/ ~p.m_ordersService,
     ok |-> TRUE]

\* RulesPlugin::start
start(p, reg, found, w) == Started(p, registerRoutes(reg, found, p.orders, w))

\* RulesPlugin::stop: a log line.
stop(p) == p

\* The services and the module after a step of the module.
Stepped(w, p, bad) ==
    /\ m_routes' = w.routes
    /\ routeLog' = IF Len(w.routes) > Len(m_routes)
                   THEN Append(routeLog, <<RulesId, RulesPageUrl>>) ELSE routeLog
    /\ m_items' = w.items
    /\ m_indexMap' = w.index
    /\ menuChanged' = w.emit
    /\ rules' = p
    /\ crashed' = (crashed \/ bad)

\* One step of the rules module, called by the plugin manager: the instance is
\* constructed in load and destroyed in unload.
RulesStep(phase) ==
    /\ call' = Call(phase, RulesPluginId, NoUpdates)
    /\ \E w \in {World(m_routes, m_items, m_indexMap, <<>>)} :
          CASE phase = "initialize" ->
                 /\ Stepped(w, initialize(rules), FALSE)
                 /\ ret' = Ret(TRUE, <<>>, NullStr)
                 /\ UNCHANGED pageFound
            [] phase = "start" ->
                 \E found \in BOOLEAN :
                    \E r \in {start(rules, registry, found, w)} :
                       /\ Stepped(r.world, r.plugin, r.crashed)
                       /\ ret' = Ret(r.ok, <<>>, NullStr)
                       /\ pageFound' = found
            [] phase = "stop" ->
                 /\ Stepped(w, stop(rules), FALSE)
                 /\ ret' = Ret(TRUE, <<>>, NullStr)
                 /\ UNCHANGED pageFound
            [] OTHER ->
                 /\ Stepped(w, NoRules, FALSE)
                 /\ ret' = Ret(TRUE, <<>>, NullStr)
                 /\ UNCHANGED pageFound
    /\ UNCHANGED <<m_currentRoute, navigationChanged, registered, onlyRegistered>>

-----------------------------------------------------------------------------
(* Application: start-up and teardown of the host *)

\* Application::loadPlugins, "if (m_pluginManager->loadAll()) {"
AfterLoadAll(result) == IF result = "true" THEN "initializeAll" ELSE "pluginsDone"

\* Application::loadPlugins, "if (m_pluginManager->initializeAll()) {"
AfterInitializeAll(result) == IF result = "true" THEN "startAll" ELSE "pluginsDone"

\* The bindings Application::initialize adds without the menu service.
HostBindingsNoMenu ==
    << Binding("INavigation", "navigation", "host"),
       Binding("ISettings", "settings", "host"),
       Binding("ITheme", "theme", "host"),
       Binding("ILogger", "m_logger", "host"),
       Binding("IEventBus", "eventBus", "host") >>

\* The bindings Application::initialize adds, in the order of the add calls.
HostBindings ==
    << Binding("INavigation", "navigation", "host"),
       Binding("ISettings", "settings", "host"),
       Binding("ITheme", "theme", "host"),
       Binding("IMenu", "menu", "host"),
       Binding("ILogger", "m_logger", "host"),
       Binding("IEventBus", "eventBus", "host") >>

RECURSIVE AddAll(_, _)
AddAll(reg, bindings) ==
    IF bindings = <<>> THEN reg
    ELSE AddAll(add(reg, Head(bindings)).reg, Tail(bindings))

\* loadPlugins searches the default path first.
SearchOrderDefaultFirst(extra, default) == <<default>> \o extra

\* loadPlugins: the extra paths in listed order, then the default path.
SearchOrder(extra, default) == extra \o <<default>>

\* The destructor unloads before it stops.
TeardownUnloadFirst(pm) == IF pm THEN <<"unloadAll", "stopAll">> ELSE <<>>

\* ~Application: "if (m_pluginManager) { stopAll(); unloadAll(); }"
Teardown(pm) == IF pm THEN <<"stopAll", "unloadAll">> ELSE <<>>

hostFrame == <<menuVars, navVars, call, ret, libVars, modFault, m_extraPluginPaths, pluginDirs>>

appFrame == <<modState, modQueue, phaseResult, m_pluginManager, pathQueue, modSource,
              rejected, registry, regRet, pmCalls, stepLog, missed>>

\* What no step of the host changes.
restFrame == <<copyVars, returned, raceVars, lockVars, modFault, m_extraPluginPaths, pluginDirs>>

initializeOrderRebuildLate == <<"services", "loadPlugins", "rebuild", "loadMainQml">>

\* The statements of Application::initialize in their order: the services are
\* created and added, the engine is created and the navigation service is
\* rebuilt with it, loadPlugins, loadMainQml.
initializeOrder == <<"services", "rebuild", "loadPlugins", "loadMainQml">>

Following(statement) ==
    initializeOrder[1 + CHOOSE i \in 1..Len(initializeOrder) : initializeOrder[i] = statement]

\* Application::initialize up to the last add: the registry and the services
\* are created and the six host capabilities are added.
StartHost ==
    /\ appPc = "constructed"
    /\ registry' = AddAll(<<>>, HostBindings)
    /\ navigation' = [address |-> "navigation", m_engine |-> FALSE, built |-> 1]
    /\ appPc' = Following("services")
    /\ UNCHANGED <<modState, modQueue, phaseResult, m_pluginManager, pathQueue, modSource,
                   rejected, regRet, pmCalls, stepLog, missed, todo, menuVars, navVars,
                   call, ret, rules, pageFound, crashed, restFrame>>

\* "navigation->~NavigationService(); new (navigation) NavigationService(
\* m_engine.get(), this);": the object at that address is destroyed with its
\* members and constructed again, empty, with the engine.
RebuildNavigation ==
    /\ appPc = "rebuild"
    /\ navigation' = [navigation EXCEPT !.m_engine = TRUE, !.built = @ + 1]
    /\ m_routes' = <<>>
    /\ m_currentRoute' = NullStr
    /\ appPc' = Following("rebuild")
    /\ UNCHANGED <<appFrame, todo, menuVars, navigationChanged, routeLog, call, ret,
                   rules, pageFound, crashed, restFrame>>

\* loadPlugins: the plugin manager is created.
CreatePluginManager ==
    /\ appPc = "loadPlugins"
    /\ m_pluginManager' = TRUE
    /\ pathQueue' = SearchOrder(m_extraPluginPaths, "D")
    /\ appPc' = "discover"
    /\ UNCHANGED <<modState, modQueue, phaseResult, modSource, rejected, registry, regRet,
                   pmCalls, stepLog, missed, todo, hostFrame>>

\* loadPlugins: one call of discover.
Discover ==
    /\ appPc = "discover"
    /\ pathQueue # <<>>
    /\ LET path == Head(pathQueue)
           r == discover(modSource, rejected, pluginDirs[path], path)
       IN /\ modSource' = r.source
          /\ rejected' = r.rejected
          /\ modState' = [m \in Modules |->
                             IF r.source[m] # "none" /\ modState[m] = "Undiscovered"
                             THEN "Discovered" ELSE modState[m]]
          /\ pmCalls' = Append(pmCalls, "discover")
    /\ pathQueue' = Tail(pathQueue)
    /\ UNCHANGED <<appPc, modQueue, phaseResult, m_pluginManager, registry, regRet,
                   stepLog, missed, todo, hostFrame>>

\* loadPlugins: all paths are searched, loadAll is called.
CallLoadAll ==
    /\ appPc = "discover"
    /\ pathQueue = <<>>
    /\ modQueue' = ByPriority(Modules)
    /\ phaseResult' = [phaseResult EXCEPT !["load"] = "true"]
    /\ pmCalls' = Append(pmCalls, "loadAll")
    /\ appPc' = "loadAll"
    /\ UNCHANGED <<modState, m_pluginManager, pathQueue, modSource, rejected, registry,
                   regRet, stepLog, missed, todo, hostFrame>>

\* The capabilities a module expects of the host.
HostCapabilities == {"INavigation", "ISettings", "ITheme", "IMenu", "ILogger", "IEventBus"}

\* One module's step of a batch.  In initialize and start the module looks up
\* the host capabilities; the rules module does what its code says.
Visit(phase) ==
    LET m == Head(modQueue)
        r == BatchStep(phase, modState[m], modFault[m], phaseResult[phase])
        runs == modState[m] = StateBefore(phase)
    IN /\ modQueue # <<>>
       /\ modState' = [modState EXCEPT ![m] = r.state]
       /\ phaseResult' = [phaseResult EXCEPT ![phase] = r.result]
       /\ modQueue' = Tail(modQueue)
       /\ stepLog' = IF runs THEN Append(stepLog, <<phase, m>>) ELSE stepLog
       /\ missed' = IF runs /\ phase \in {"initialize", "start"}
                    THEN missed \cup {<<m, phase, c>> :
                                         c \in {h \in HostCapabilities : get(registry, h) = Absent}}
                    ELSE missed
       /\ IF m = RulesModule /\ runs /\ r.state # "Failed"
          THEN RulesStep(phase)
          ELSE UNCHANGED <<menuVars, navVars, call, ret, rules, pageFound, crashed>>
       /\ UNCHANGED <<appPc, m_pluginManager, pathQueue, modSource, rejected, registry,
                      regRet, pmCalls, todo, navigation, restFrame>>

\* Go on after a batch has returned; a batch that is called starts as "true".
Continue(to) ==
    /\ modQueue = <<>>
    /\ appPc' = to
    /\ IF to = "pluginsDone"
       THEN UNCHANGED <<modQueue, phaseResult, pmCalls>>
       ELSE /\ modQueue' = ByPriority(Modules)
            /\ phaseResult' = [phaseResult EXCEPT
                                  ![IF to = "initializeAll" THEN "initialize" ELSE "start"] = "true"]
            /\ pmCalls' = Append(pmCalls, to)
    /\ UNCHANGED <<modState, m_pluginManager, pathQueue, modSource, rejected, registry,
                   regRet, stepLog, missed, todo, hostFrame>>

LoadStep == appPc = "loadAll" /\ Visit("load")

LoadAllReturn == appPc = "loadAll" /\ Continue(AfterLoadAll(phaseResult["load"]))

InitializeStep == appPc = "initializeAll" /\ Visit("initialize")

InitializeAllReturn ==
    appPc = "initializeAll" /\ Continue(AfterInitializeAll(phaseResult["initialize"]))

StartStep == appPc = "startAll" /\ Visit("start")

StartAllReturn == appPc = "startAll" /\ Continue("pluginsDone")

\* loadPlugins returns to Application::initialize.
LoadPluginsReturn ==
    /\ appPc = "pluginsDone"
    /\ appPc' = Following("loadPlugins")
    /\ UNCHANGED <<appFrame, todo, hostFrame>>

\* Application::initialize, loadMainQml: on failure initialize returns false
\* and main returns 1, otherwise main calls run.
LoadMainQml ==
    /\ appPc = "loadMainQml"
    /\ \E loaded \in BOOLEAN : appPc' = IF loaded THEN "running" ELSE "exit"
    /\ UNCHANGED <<appFrame, todo, hostFrame>>

\* Application::run returns when the event loop ends.
Quit ==
    /\ appPc = "running"
    /\ appPc' = "exit"
    /\ UNCHANGED <<appFrame, todo, hostFrame>>

\* main returns: ~Application runs.
Destructor ==
    /\ appPc = "exit"
    /\ todo' = Teardown(m_pluginManager)
    /\ appPc' = "destructor"
    /\ UNCHANGED <<appFrame, hostFrame>>

\* ~Application calls stopAll or unloadAll.
TeardownCall ==
    /\ appPc = "destructor"
    /\ todo # <<>>
    /\ appPc' = Head(todo)
    /\ todo' = Tail(todo)
    /\ pmCalls' = Append(pmCalls, Head(todo))
    /\ modQueue' = Reverse(ByPriority(Modules))
    /\ UNCHANGED <<modState, phaseResult, m_pluginManager, pathQueue, modSource, rejected,
                   registry, regRet, stepLog, missed, hostFrame>>

\* One module's step of stopAll or unloadAll; stopAll retracts the bindings
\* of the module it has stopped.
TeardownVisit(op) ==
    LET m == Head(modQueue)
        after == teardownStep(op, modState[m])
        runs == after # modState[m]
    IN /\ modQueue # <<>>
       /\ modState' = [modState EXCEPT ![m] = after]
       /\ modQueue' = Tail(modQueue)
       /\ stepLog' = IF runs THEN Append(stepLog, <<op, m>>) ELSE stepLog
       /\ registry' = IF runs /\ op = "stop" THEN removeAllForOwner(registry, m) ELSE registry
       /\ IF m = RulesModule /\ runs
          THEN RulesStep(op)
          ELSE UNCHANGED <<menuVars, navVars, call, ret, rules, pageFound, crashed>>
       /\ UNCHANGED <<appPc, phaseResult, m_pluginManager, pathQueue, modSource, rejected,
                      regRet, pmCalls, missed, todo, navigation, restFrame>>

StopStep == appPc = "stopAll" /\ TeardownVisit("stop")

UnloadStep == appPc = "unloadAll" /\ TeardownVisit("unload")

\* stopAll or unloadAll returns to the destructor.
TeardownReturn ==
    /\ appPc \in {"stopAll", "unloadAll"}
    /\ modQueue = <<>>
    /\ appPc' = "destructor"
    /\ UNCHANGED <<appFrame, todo, hostFrame>>

\* The destructor has made its calls.
Destroyed ==
    /\ appPc = "destructor"
    /\ todo = <<>>
    /\ appPc' = "destroyed"
    /\ UNCHANGED <<appFrame, todo, hostFrame>>

NextApp ==
    \/ StartHost
    \/ RebuildNavigation
    \/ CreatePluginManager
    \/ Discover
    \/ CallLoadAll
    \/ LoadStep
    \/ LoadAllReturn
    \/ InitializeStep
    \/ InitializeAllReturn
    \/ StartStep
    \/ StartAllReturn
    \/ LoadPluginsReturn
    \/ LoadMainQml
    \/ Quit
    \/ Destructor
    \/ TeardownCall
    \/ StopStep
    \/ UnloadStep
    \/ TeardownReturn
    \/ Destroyed

\* MPF_PLUGIN_PATH as the developer has set it.
ExtraPathLists == {<<>>, <<"X1", "X2">>, <<"X2", "X1">>}

\* Where the binaries of the modules lie: C in the default directory only, A
\* and B also, or only, in development directories.
DirsOf(a, b) ==
    [p \in Paths |-> (IF p \in a THEN {"A"} ELSE {}) \cup (IF p \in b THEN {"B"} ELSE {})
                     \cup (IF p = "D" THEN {"C"} ELSE {})]

Installs ==
    {DirsOf(a, b) : a \in {{"D"}, {"X1", "D"}, {"X2", "D"}, {"X1", "X2"}},
                    b \in {{"D"}, {"X2", "D"}}}

\* The host with module binaries that may fail at one of their steps.
InitApp ==
    /\ ServicesInit
    /\ HostInit
    /\ LibIdle
    /\ m_extraPluginPaths \in ExtraPathLists
    /\ pluginDirs \in Installs
    /\ modFault \in [Modules -> {"none"} \cup Phases]

SpecApp == InitApp /\ [][NextApp]_vars

-----------------------------------------------------------------------------
(* Properties of the start-up sequence *)

\* C1: when loadPlugins has run, a discovered module that failed to load (or
\* to initialize) has made the aggregate result of that phase false, and every
\* module without a fault has still reached Started.
C1_FailureDoesNotBlockOthers ==
    \A a, b \in Modules :
        (/\ appPc = "pluginsDone"
         /\ modSource[a] # "none" /\ modFault[a] \in {"load", "initialize"}
         /\ modSource[b] # "none" /\ modFault[b] = "none")
            => /\ phaseResult[modFault[a]] = "false"
               /\ modState[b] = "Started"

PmCallsOf(names) == SelectSeq(pmCalls, LAMBDA c : c \in names)

\* C14: once the plugin manager exists, the teardown of the host calls stopAll
\* and then unloadAll, exactly once each, whatever discovery, the batches and
\* the loading of the main page have returned; unloadAll is never called
\* before stopAll.
C14_TeardownInOrder ==
    /\ \A i \in 1..Len(pmCalls) :
          pmCalls[i] = "unloadAll" => \E j \in 1..(i - 1) : pmCalls[j] = "stopAll"
    /\ (appPc = "destroyed" /\ m_pluginManager)
          => PmCallsOf({"stopAll", "unloadAll"}) = <<"stopAll", "unloadAll">>

\* The host is torn down after loadAll has failed and startAll was never called.
C14_Witness ==
    /\ appPc = "destroyed"
    /\ phaseResult["load"] = "false"
    /\ PmCallsOf({"initializeAll", "startAll"}) = <<>>
    /\ PmCallsOf({"stopAll", "unloadAll"}) = <<"stopAll", "unloadAll">>
    /\ \E m \in Modules : modState[m] = "Unloaded"

\* The paths in the order the claim has them searched.
PathsInOrder == m_extraPluginPaths \o <<"D">>

PathsWith(m) == SelectSeq(PathsInOrder, LAMBDA p : m \in pluginDirs[p])

\* C15: the extra plugin paths are searched in listed order before the default
\* path: the module kept for an id is at every moment the one of the earliest
\* path that holds the id, and when discovery is over the id has been rejected
\* for every later path that holds it.
C15_EarlierPathWins ==
    \A m \in Modules :
        /\ modSource[m] # "none" => modSource[m] = Head(PathsWith(m))
        /\ (appPc \notin {"constructed", "rebuild", "loadPlugins", "discover"}
               /\ PathsWith(m) # <<>>)
              => /\ modSource[m] = Head(PathsWith(m))
                 /\ \A i \in 2..Len(PathsWith(m)) : <<m, PathsWith(m)[i]>> \in rejected

\* MPF_PLUGIN_PATH lists X2 before X1, module A lies in both, module B in X2
\* and in the default directory: A and B are kept from X2.
C15_Witness ==
    /\ appPc = "loadAll"
    /\ m_extraPluginPaths = <<"X2", "X1">>
    /\ modSource["A"] = "X2"
    /\ <<"A", "X1">> \in rejected
    /\ modSource["B"] = "X2"
    /\ <<"B", "D">> \in rejected
    /\ modSource["C"] = "D"

\* C16: whenever a module's initialize or start step can run, each of the six
\* host capabilities is bound under owner "host", and no lookup of one of them
\* made in such a step has come back absent.
C16_HostCapabilitiesBound ==
    /\ missed = {}
    /\ appPc \in {"initializeAll", "startAll"}
          => \A c \in {"INavigation", "ISettings", "ITheme", "IMenu", "ILogger", "IEventBus"} :
                get(registry, c).owner = "host"

\* Module B has looked the capabilities up in initialize and in start.
C16_Witness ==
    /\ appPc = "startAll"
    /\ \E i, j \in 1..Len(stepLog) :
          stepLog[i] = <<"initialize", "B">> /\ stepLog[j] = <<"start", "B">>
    /\ missed = {}

\* C19: in load, initialize and start the step of a module with a lower
\* priority value comes before the step of one with a higher value; in stop
\* and unload the order is the reverse.
C19_StepsByPriority ==
    \A i, j \in 1..Len(stepLog) :
        (i < j /\ stepLog[i][1] = stepLog[j][1])
            => IF stepLog[i][1] \in {"load", "initialize", "start"}
               THEN Priority[stepLog[i][2]] <= Priority[stepLog[j][2]]
               ELSE Priority[stepLog[i][2]] >= Priority[stepLog[j][2]]

\* All modules have gone through the five phases: A (10) before B (20, the
\* rules module) before C in start, C before B before A in stop and unload.
C19_Witness ==
    /\ appPc = "destroyed"
    /\ SelectSeq(stepLog, LAMBDA e : e[1] = "start") =
          << <<"start", "A">>, <<"start", "B">>, <<"start", "C">> >>
    /\ SelectSeq(stepLog, LAMBDA e : e[1] = "stop") =
          << <<"stop", "C">>, <<"stop", "B">>, <<"stop", "A">> >>
    /\ SelectSeq(stepLog, LAMBDA e : e[1] = "unload") =
          << <<"unload", "C">>, <<"unload", "B">>, <<"unload", "A">> >>

\* The items of the menu that the rules module has contributed.
RulesItems == SelectSeq(m_items, LAMBDA x : x.pluginId.chars = RulesPluginId)

\* C24: after the rules module has been stopped and unloaded, the menu holds
\* no item whose pluginId is the module's id, and no handler of the module
\* that would call into the menu service is still connected.
C24_NoDanglingContributions ==
    modState[RulesModule] = "Unloaded"
        => /\ RulesItems = <<>>
           /\ ~rules.connected

\* C26: in the host, where INavigation and IMenu are both bound, whenever the
\* menu holds the rules module's item (id "rules", route "rules") the route
\* table holds a registration for the pattern "rules", and getPageUrl("rules")
\* is not a miss.
C26_RulesItemHasRoute ==
    (bound(registry, "INavigation") /\ bound(registry, "IMenu"))
        => \A i \in 1..Len(RulesItems) :
              (RulesItems[i].id.chars = RulesId /\ RulesItems[i].route.chars = RulesId)
                  => /\ \E j \in 1..Len(m_routes) : m_routes[j].pattern.chars = RulesId
                     /\ getPageUrl(m_routes, PluginStr(RulesId)).chars = RulesPageUrl

\* The host runs with the item of the rules module in its menu, badge "2",
\* and the page of the module in its route table.
C26_Witness ==
    /\ appPc = "running"
    /\ Len(RulesItems) = 1
    /\ RulesItems[1].route.chars = RulesId
    /\ RulesItems[1].badge.chars = <<50>>
    /\ Len(m_routes) = 1
    /\ m_routes[1].pattern.chars = RulesId
    /\ pageFound

\* C28: the navigation service is rebuilt in place, with the engine, when it
\* is bound in the registry and no module is discovered yet; the INavigation
\* binding of the registry refers to the rebuilt object, and no step, the
\* rebuild included, discards a route that has been registered.
C28_RebuildBeforeModules ==
    [][ /\ navigation'.built > navigation.built /\ navigation.built > 0
            => /\ get(registry, "INavigation").inst = navigation.address
               /\ \A m \in Modules : modState[m] = "Undiscovered"
               /\ ~m_pluginManager
        /\ navigation'.m_engine
            => get(registry', "INavigation").inst = navigation'.address
        /\ \A i \in 1..Len(m_routes) :
              i <= Len(m_routes') /\ m_routes'[i] = m_routes[i] ]_vars

\* The rules module has registered its route with the rebuilt service.
C28_Witness ==
    /\ navigation.built = 2
    /\ navigation.m_engine
    /\ get(registry, "INavigation").inst = navigation.address
    /\ modState[RulesModule] = "Started"
    /\ Len(m_routes) = 1
    /\ m_routes[1].pattern.chars = RulesId

-----------------------------------------------------------------------------
(* ServiceRegistry called by the host and by modules *)

Capabilities == {"IMenu", "IOrders"}
Instances == {"first", "second"}
Owners == {"host", "A"}

RegistryCall(op, cap, ok, inst) == [op |-> op, cap |-> cap, ok |-> ok, inst |-> inst]

registryFrame == <<menuVars, navVars, call, ret, libVars, appPc, modState, modQueue,
                   phaseResult, modFault, m_pluginManager, m_extraPluginPaths, pluginDirs,
                   pathQueue, modSource, rejected, pmCalls, stepLog, missed, todo>>

RegistryAdd ==
    \E cap \in Capabilities, inst \in Instances, owner \in Owners :
        LET r == add(registry, Binding(cap, inst, owner))
        IN /\ registry' = r.reg
           /\ regRet' = RegistryCall("add", cap, r.ok, inst)
           /\ UNCHANGED registryFrame

RegistryGet ==
    \E cap \in Capabilities :
        /\ regRet' = RegistryCall("get", cap, bound(registry, cap), get(registry, cap).inst)
        /\ UNCHANGED <<registry, registryFrame>>

RegistryRemoveAllForOwner ==
    \E owner \in Owners :
        /\ registry' = removeAllForOwner(registry, owner)
        /\ regRet' = RegistryCall("removeAllForOwner", "", TRUE, "")
        /\ UNCHANGED registryFrame

NextRegistry ==
    \/ RegistryAdd
    \/ RegistryGet
    \/ RegistryRemoveAllForOwner

SpecRegistry == Init /\ [][NextRegistry]_vars

BindingsOf(reg, cap) == {i \in 1..Len(reg) : reg[i].cap = cap}

\* C17: after every registry call each capability has at most one binding,
\* and an add for a capability that is bound is refused and leaves get for
\* that capability at the binding of the first add.
C17_OneBindingPerCapability ==
    [][ /\ \A cap \in Capabilities : Cardinality(BindingsOf(registry', cap)) <= 1
        /\ (regRet'.op = "add" /\ BindingsOf(registry, regRet'.cap) # {})
              => /\ regRet'.ok = FALSE
                 /\ get(registry', regRet'.cap) = get(registry, regRet'.cap) ]_vars

\* A second add for IMenu, with another instance and owner, has been refused.
C17_Witness ==
    /\ regRet = RegistryCall("add", "IMenu", FALSE, "second")
    /\ get(registry, "IMenu") = Binding("IMenu", "first", "host")
    /\ Len(registry) = 2

-----------------------------------------------------------------------------
(* NavigationService called from several threads.  Neither registerRoute   *)
(* nor getPageUrl takes a lock, and the class has no mutex member, so the  *)
(* memory accesses of m_routes.append and of the lookup loop interleave.   *)

Writers == {"t1", "t2"}
Reader == "t3"

raceFrame == <<menuVars, navVars, call, ret, appVars, copyVars, returned, lockVars, moduleVars>>

\* registerRoute is entered: the entry is built from the deep-copied arguments.
EnterRegisterRoute(t) ==
    /\ threadPc[t] = "idle"
    /\ \E route \in Patterns, qmlPageUrl \in {Url1, Url2} :
          threadArg' = [threadArg EXCEPT ![t] = [pattern |-> route, pageUrl |-> qmlPageUrl]]
    /\ threadPc' = [threadPc EXCEPT ![t] = "append"]
    /\ UNCHANGED <<routeData, routeSize, threadSlot, observed, raceFrame>>

\* m_routes.append(entry): the size is read to find the free slot.
AppendReadSize(t) ==
    /\ threadPc[t] = "append"
    /\ threadSlot' = [threadSlot EXCEPT ![t] = routeSize + 1]
    /\ threadPc' = [threadPc EXCEPT ![t] = "pattern"]
    /\ UNCHANGED <<routeData, routeSize, threadArg, observed, raceFrame>>

\* The entry is copied into the slot, member by member.
AppendWritePattern(t) ==
    /\ threadPc[t] = "pattern"
    /\ routeData' = [routeData EXCEPT ![threadSlot[t]].pattern = threadArg[t].pattern]
    /\ threadPc' = [threadPc EXCEPT ![t] = "pageUrl"]
    /\ UNCHANGED <<routeSize, threadArg, threadSlot, observed, raceFrame>>

AppendWritePageUrl(t) ==
    /\ threadPc[t] = "pageUrl"
    /\ routeData' = [routeData EXCEPT ![threadSlot[t]].pageUrl = threadArg[t].pageUrl]
    /\ threadPc' = [threadPc EXCEPT ![t] = "size"]
    /\ UNCHANGED <<routeSize, threadArg, threadSlot, observed, raceFrame>>

\* The size is stored: the entry is part of the list.
AppendWriteSize(t) ==
    /\ threadPc[t] = "size"
    /\ routeSize' = threadSlot[t]
    /\ threadPc' = [threadPc EXCEPT ![t] = "done"]
    /\ UNCHANGED <<routeData, threadArg, threadSlot, observed, raceFrame>>

\* getPageUrl: the loop reads an entry of the list whose pattern is the route.
LookupRead ==
    /\ threadPc[Reader] = "idle"
    /\ \E i \in 1..routeSize :
          /\ routeData[i].pattern \in Patterns
          /\ observed' = routeData[i]
    /\ threadPc' = [threadPc EXCEPT ![Reader] = "done"]
    /\ UNCHANGED <<routeData, routeSize, threadArg, threadSlot, raceFrame>>

NextRace ==
    \/ \E t \in Writers : EnterRegisterRoute(t)
    \/ \E t \in Writers : AppendReadSize(t)
    \/ \E t \in Writers : AppendWritePattern(t)
    \/ \E t \in Writers : AppendWritePageUrl(t)
    \/ \E t \in Writers : AppendWriteSize(t)
    \/ LookupRead

SpecRace == Init /\ [][NextRace]_vars

RouteTable == [i \in 1..routeSize |-> routeData[i]]

\* C18: calls of registerRoute and getPageUrl from different threads behave as
\* if serialized by a lock: when the registerRoute calls have returned, every
\* registration is in the route table, and an entry a lookup has read is one
\* that a registerRoute call was given.
C18_RouteTableSerialized ==
    /\ (\A t \in Writers : threadPc[t] = "done")
          => \A t \in Writers : \E i \in 1..Len(RouteTable) : RouteTable[i] = threadArg[t]
    /\ threadPc[Reader] = "done" => observed \in {threadArg[t] : t \in Writers}

-----------------------------------------------------------------------------
(* deepCopy applied to values of a plugin *)

PluginNode(kind, data, elems) ==
    Node(kind, data, IF data = <<>> /\ elems = <<>> THEN NoBuf ELSE PluginBuf, elems)

\* Values without nesting.  "hash" is a QVariant of a type the switch of
\* deepCopy(const QVariant&) does not name and that has storage of its own,
\* a QHash<QString, QVariant>.
Sample ==
    [int |-> Node("int", <<7>>, NoBuf, <<>>),
     invalid |-> Node("invalid", <<>>, NoBuf, <<>>),
     string |-> PluginNode("QString", <<97>>, <<>>),
     empty |-> PluginNode("QString", <<>>, <<>>),
     keyK |-> PluginNode("QString", <<107>>, <<>>),
     keyL |-> PluginNode("QString", <<108>>, <<>>),
     bytes |-> PluginNode("QByteArray", <<1, 0>>, <<>>),
     strings |-> PluginNode("QStringList", <<>>,
                            <<PluginNode("QString", <<97>>, <<>>),
                              PluginNode("QString", <<>>, <<>>)>>),
     hash |-> PluginNode("QVariantHash", <<>>, <<PluginNode("QString", <<97>>, <<>>)>>)]

Entry(key, val) == PluginNode("entry", <<>>, <<key, val>>)

Atoms ==
    {Sample.int, Sample.invalid, Sample.string, Sample.empty, Sample.bytes,
     Sample.strings, Sample.hash}

ContainersOf(values) ==
    {PluginNode("QVariantList", <<>>, <<>>), PluginNode("QVariantMap", <<>>, <<>>)}
    \cup {PluginNode("QVariantList", <<>>, <<v>>) : v \in values}
    \cup {PluginNode("QVariantList", <<>>, <<Sample.int, v>>) : v \in values}
    \cup {PluginNode("QVariantMap", <<>>, <<Entry(Sample.keyK, v)>>) : v \in values}
    \cup {PluginNode("QVariantMap", <<>>,
                      <<Entry(Sample.keyK, Sample.string), Entry(Sample.keyL, v)>>) : v \in values}

RECURSIVE ValuesOfDepth(_)
ValuesOfDepth(d) ==
    IF d = 0 THEN Atoms ELSE Atoms \cup ContainersOf(ValuesOfDepth(d - 1))

\* The static type the caller has in hand picks the overload.
deepCopyOverload(x, at) ==
    CASE x.kind = "QString" -> deepCopyQString(x, at)
      [] x.kind = "QStringList" -> deepCopyQStringList(x, at)
      [] x.kind = "QByteArray" -> deepCopyQByteArray(x, at)
      [] x.kind = "QVariantMap" -> deepCopyQVariantMap(x, at)
      [] x.kind = "QVariantList" -> deepCopyQVariantList(x, at)
      [] OTHER -> deepCopyQVariant(x, at)

\* The host copies what it was handed.
DeepCopy ==
    /\ copyIn # NoValue
    /\ copyOut = NoValue
    /\ copyOut' = deepCopyOverload(copyIn, <<1>>)
    /\ UNCHANGED <<copyIn, copyAgain, returned, raceVars, lockVars, moduleVars, menuVars, navVars, appVars, call, ret>>

\* The same value wrapped in a QVariant (an element of a payload) is copied.
DeepCopyVariant ==
    /\ copyIn # NoValue
    /\ copyOut = NoValue
    /\ copyOut' = deepCopyQVariant(copyIn, <<1>>)
    /\ UNCHANGED <<copyIn, copyAgain, returned, raceVars, lockVars, moduleVars, menuVars, navVars, appVars, call, ret>>

\* The copy is copied once more.
DeepCopyAgain ==
    /\ copyOut # NoValue
    /\ copyAgain = NoValue
    /\ copyAgain' = deepCopyOverload(copyOut, <<2>>)
    /\ UNCHANGED <<copyIn, copyOut, returned, raceVars, lockVars, moduleVars, menuVars, navVars, appVars, call, ret>>

NextCopy ==
    \/ DeepCopy
    \/ DeepCopyVariant
    \/ DeepCopyAgain

InitCopy ==
    /\ ServicesInit
    /\ HostInit
    /\ PlainInstall
    /\ modFault = [m \in Modules |-> "none"]
    /\ copyIn \in ValuesOfDepth(MaxDepth)
    /\ copyOut = NoValue
    /\ copyAgain = NoValue
    /\ returned = NoValue
    /\ routeData = [i \in 1..2 |-> NoEntry]
    /\ routeSize = 0
    /\ threadPc = [t \in Threads |-> "idle"]
    /\ threadArg = [t \in Threads |-> NoEntry]
    /\ threadSlot = [t \in Threads |-> 0]
    /\ observed = NoEntry
    /\ LockIdle
    /\ ModuleIdle

SpecCopy == InitCopy /\ [][NextCopy]_vars

\* What operator== compares: the tree without its buffers.
RECURSIVE ValueOf(_)
ValueOf(x) ==
    [kind |-> x.kind, data |-> x.data,
     elems |-> [i \in 1..Len(x.elems) |-> ValueOf(x.elems[i])]]

\* The buffers reachable from a value.
RECURSIVE Buffers(_)
Buffers(x) ==
    (IF x.buf = NoBuf THEN {} ELSE {x.buf})
    \cup UNION {Buffers(x.elems[i]) : i \in 1..Len(x.elems)}

\* Built of scalars, strings, string lists, byte arrays, variant lists and maps only.
RECURSIVE Classified(_)
Classified(x) ==
    /\ x.kind \in {"int", "invalid", "QString", "QStringList", "QByteArray",
                   "QVariantList", "QVariantMap", "entry"}
    /\ \A i \in 1..Len(x.elems) : Classified(x.elems[i])

C12_DeepCopyIsDeep ==
    copyOut # NoValue
        => /\ ValueOf(copyOut) = ValueOf(copyIn)
           /\ Buffers(copyOut) \cap Buffers(copyIn) = {}

-----------------------------------------------------------------------------
(* Getters: what the services hand back, with its storage.  The stored     *)
(* state is read as a tree whose host buffers are named by their place.    *)

\* Where the buffers are: the stored state, the return value of a getter and
\* the temporaries of a getter.
Buf == [items |-> <<3>>, routes |-> <<4>>, current |-> <<5>>, returned |-> <<6>>, temp |-> <<7>>]

StoredString(str, where) ==
    Node("QString", str.chars,
         CASE str.heap = "null" -> NoBuf
           [] str.heap = "plugin" -> PluginBuf
           [] OTHER -> where,
         <<>>)

\* A MenuItem: order and enabled are held in the struct, the strings in buffers.
StoredItem(item, where) ==
    Node("MenuItem", <<item.order, IF item.enabled THEN 1 ELSE 0>>, NoBuf,
         << StoredString(item.id, where \o <<1>>),
            StoredString(item.label, where \o <<2>>),
            StoredString(item.icon, where \o <<3>>),
            StoredString(item.route, where \o <<4>>),
            StoredString(item.group, where \o <<5>>),
            StoredString(item.badge, where \o <<6>>),
            StoredString(item.pluginId, where \o <<7>>) >>)

StoredItems ==
    Node("QList<MenuItem>", <<>>, IF m_items = <<>> THEN NoBuf ELSE Buf.items,
         [i \in 1..Len(m_items) |-> StoredItem(m_items[i], Buf.items \o <<i>>)])

StoredRoutes ==
    Node("QList<RouteEntry>", <<>>, IF m_routes = <<>> THEN NoBuf ELSE Buf.routes,
         [i \in 1..Len(m_routes) |->
             Node("RouteEntry", <<>>, NoBuf,
                  << StoredString(m_routes[i].pattern, Buf.routes \o <<i, 1>>),
                     StoredString(m_routes[i].pageUrl, Buf.routes \o <<i, 2>>) >>)])

StoredCurrentRoute == StoredString(m_currentRoute, Buf.current)

\* deepCopyItem, on an item with its storage.
deepCopyMenuItem(item, at) ==
    Node("MenuItem", item.data, NoBuf,
         [f \in 1..Len(item.elems) |-> deepCopyQString(item.elems[f], at \o <<f>>)])

\* MenuService::items
itemsReturned(list, at) ==
    Node("QList<MenuItem>", <<>>, IF list.elems = <<>> THEN NoBuf ELSE at,
         [i \in 1..Len(list.elems) |-> deepCopyMenuItem(list.elems[i], at \o <<i>>)])

\* The keys of MenuItem::toVariantMap, as code units.
ItemKey ==
    [badge |-> <<98, 97, 100, 103, 101>>,
     enabled |-> <<101, 110, 97, 98, 108, 101, 100>>,
     group |-> <<103, 114, 111, 117, 112>>,
     icon |-> <<105, 99, 111, 110>>,
     id |-> <<105, 100>>,
     label |-> <<108, 97, 98, 101, 108>>,
     order |-> <<111, 114, 100, 101, 114>>,
     pluginId |-> <<112, 108, 117, 103, 105, 110, 73, 100>>,
     route |-> <<114, 111, 117, 116, 101>>]

\* MenuItem::toVariantMap: a map of new QVariants; a QVariant made of a
\* QString shares the string's buffer.
toVariantMap(item, at) ==
    LET VariantOf(key, val, to) ==
            Node("entry", <<>>, to, <<Node("QString", key, to \o <<1>>, <<>>), val>>)
    IN
    Node("QVariantMap", <<>>, at,
         << VariantOf(ItemKey.badge, item.elems[6], at \o <<1>>),
            VariantOf(ItemKey.enabled, Node("bool", <<item.data[2]>>, NoBuf, <<>>), at \o <<2>>),
            VariantOf(ItemKey.group, item.elems[5], at \o <<3>>),
            VariantOf(ItemKey.icon, item.elems[3], at \o <<4>>),
            VariantOf(ItemKey.id, item.elems[1], at \o <<5>>),
            VariantOf(ItemKey.label, item.elems[2], at \o <<6>>),
            VariantOf(ItemKey.order, Node("int", <<item.data[1]>>, NoBuf, <<>>), at \o <<7>>),
            VariantOf(ItemKey.pluginId, item.elems[7], at \o <<8>>),
            VariantOf(ItemKey.route, item.elems[4], at \o <<9>>) >>)

\* MenuService::itemsAsVariant
itemsAsVariant(list, at) ==
    Node("QVariantList", <<>>, IF list.elems = <<>> THEN NoBuf ELSE at,
         [i \in 1..Len(list.elems) |->
             deepCopyQVariantMap(toVariantMap(list.elems[i], Buf.temp \o <<i>>), at \o <<i>>)])

\* The getter without the deep copy: the maps of toVariantMap as they are.
itemsInGroupShared(list, group, at) ==
    LET found == SelectSeq([i \in 1..Len(list.elems) |-> i],
                           LAMBDA i : list.elems[i].elems[5].data = group.data)
    IN Node("QVariantList", <<>>, IF found = <<>> THEN NoBuf ELSE at,
            [k \in 1..Len(found) |-> toVariantMap(list.elems[found[k]], Buf.temp \o <<k>>)])

\* MenuService::itemsInGroup
itemsInGroup(list, group, at) ==
    LET found == SelectSeq([i \in 1..Len(list.elems) |-> i],
                           LAMBDA i : list.elems[i].elems[5].data = group.data)
    IN Node("QVariantList", <<>>, IF found = <<>> THEN NoBuf ELSE at,
            [k \in 1..Len(found) |->
                deepCopyQVariantMap(toVariantMap(list.elems[found[k]], Buf.temp \o <<k>>),
                                    at \o <<k>>)])

\* The QSet of MenuService::groups: the first string inserted for each value
\* stays in the set; values() lists them in the order of the hash table.
GroupSet(list) ==
    {i \in 1..Len(list.elems) :
        /\ list.elems[i].elems[5].data # <<>>
        /\ \A j \in 1..(i - 1) : list.elems[j].elems[5].data # list.elems[i].elems[5].data}

Orderings(set) ==
    {f \in [1..Cardinality(set) -> set] : \A i, j \in DOMAIN f : f[i] = f[j] => i = j}

\* MenuService::groups, with the set listed in the order "values"
groups(list, values, at) ==
    deepCopyQStringList(
        Node("QStringList", <<>>, IF values = <<>> THEN NoBuf ELSE Buf.temp,
             [k \in 1..Len(values) |-> list.elems[values[k]].elems[5]]),
        at)

\* NavigationService::getPageUrl
RECURSIVE getPageUrlReturned(_, _, _, _)
getPageUrlReturned(routes, i, route, at) ==
    IF i > Len(routes.elems) THEN Node("QString", <<>>, NoBuf, <<>>)
    ELSE IF routes.elems[i].elems[1].data = route.data
         THEN deepCopyQString(routes.elems[i].elems[2], at)
         ELSE getPageUrlReturned(routes, i + 1, route, at)

\* NavigationService::currentRoute
currentRouteReturned(current, at) == deepCopyQString(current, at)

-----------------------------------------------------------------------------
(* A plugin fills the menu and the route table and reads them back *)

ShownItems ==
    {PluginItem(IdA, GroupA, 1), PluginItem(IdB, GroupB, 1), PluginItem(IdB, <<>>, 1)}

Show == RegisterItemOf(ShownItems)

Mark == SetBadgeOf({IdA}, {Badge7})

Route == RegisterRouteOf({RouteR}, {Url1, <<>>})

OpenPage == SetCurrentRouteOf({RouteR})

\* A getter call: the stored state stays, the caller holds the returned value.
Get(op, arg, val) ==
    /\ call' = Call(op, arg, NoUpdates)
    /\ ret' = Ret(TRUE, <<>>, NullStr)
    /\ returned' = val
    /\ menuChanged' = <<>>
    /\ navigationChanged' = <<>>
    /\ UNCHANGED <<m_items, m_indexMap, registered, onlyRegistered,
                   m_routes, m_currentRoute, routeLog, appVars, copyVars, raceVars, lockVars, moduleVars>>

GetItemsCopy == Get("items", <<>>, itemsReturned(StoredItems, Buf.returned))

GetItemsAsVariant == Get("itemsAsVariant", <<>>, itemsAsVariant(StoredItems, Buf.returned))

GetItemsInGroup ==
    \E group \in {GroupA, GroupC, <<>>} :
        Get("itemsInGroup", group,
            itemsInGroup(StoredItems, Node("QString", group, PluginBuf, <<>>), Buf.returned))

GetGroups ==
    \E values \in Orderings(GroupSet(StoredItems)) :
        Get("groups", <<>>, groups(StoredItems, values, Buf.returned))

GetPageUrlCopy ==
    \E route \in {RouteR, RouteX} :
        Get("getPageUrl", route,
            getPageUrlReturned(StoredRoutes, 1, Node("QString", route, PluginBuf, <<>>), Buf.returned))

GetCurrentRoute == Get("currentRoute", <<>>, currentRouteReturned(StoredCurrentRoute, Buf.returned))

NextGet ==
    \/ Show
    \/ Mark
    \/ Route
    \/ OpenPage
    \/ GetItemsCopy
    \/ GetItemsAsVariant
    \/ GetItemsInGroup
    \/ GetGroups
    \/ GetPageUrlCopy
    \/ GetCurrentRoute

SpecGet == Init /\ [][NextGet]_vars

\* The buffers that back the stored state of the two services.
StoredBuffers ==
    Buffers(StoredItems) \cup Buffers(StoredRoutes) \cup Buffers(StoredCurrentRoute)

\* The item a returned MenuItem stands for.
ItemOfNode(n) ==
    [id |-> n.elems[1].data, label |-> n.elems[2].data, icon |-> n.elems[3].data,
     route |-> n.elems[4].data, group |-> n.elems[5].data, order |-> n.data[1],
     enabled |-> n.data[2] = 1, badge |-> n.elems[6].data,
     pluginId |-> n.elems[7].data]

\* The value a returned map holds under a key.
At(map, key) ==
    LET i == CHOOSE i \in 1..Len(map.elems) : map.elems[i].elems[1].data = key
    IN map.elems[i].elems[2]

\* The item a returned variant map stands for.
ItemOfMap(map) ==
    [id |-> At(map, ItemKey.id).data, label |-> At(map, ItemKey.label).data,
     icon |-> At(map, ItemKey.icon).data, route |-> At(map, ItemKey.route).data,
     group |-> At(map, ItemKey.group).data, order |-> At(map, ItemKey.order).data[1],
     enabled |-> At(map, ItemKey.enabled).data[1] = 1, badge |-> At(map, ItemKey.badge).data,
     pluginId |-> At(map, ItemKey.pluginId).data]

StoredValues == [i \in 1..Len(m_items) |-> ItemValue(m_items[i])]

FirstUrl(route) ==
    IF \E i \in 1..Len(m_routes) : m_routes[i].pattern.chars = route
    THEN LET i == CHOOSE i \in 1..Len(m_routes) :
                     /\ m_routes[i].pattern.chars = route
                     /\ \A j \in 1..(i - 1) : m_routes[j].pattern.chars # route
         IN m_routes[i].pageUrl.chars
    ELSE <<>>

\* What each getter has to return in the state it is called in.
ReturnedValueIsStored ==
    CASE call.op = "items" ->
            [i \in 1..Len(returned.elems) |-> ItemOfNode(returned.elems[i])] = StoredValues
      [] call.op = "itemsAsVariant" ->
            /\ [i \in 1..Len(returned.elems) |-> ItemOfMap(returned.elems[i])] = StoredValues
            /\ \A i \in 1..Len(returned.elems) : Len(returned.elems[i].elems) = 9
      [] call.op = "itemsInGroup" ->
            [i \in 1..Len(returned.elems) |-> ItemOfMap(returned.elems[i])]
                = SelectSeq(StoredValues, LAMBDA v : v.group = call.arg)
      [] call.op = "groups" ->
            /\ {returned.elems[i].data : i \in 1..Len(returned.elems)}
                  = {m_items[i].group.chars : i \in 1..Len(m_items)} \ {<<>>}
            /\ \A i, j \in 1..Len(returned.elems) :
                  returned.elems[i].data = returned.elems[j].data => i = j
      [] call.op = "getPageUrl" -> returned.data = FirstUrl(call.arg)
      [] call.op = "currentRoute" -> returned.data = m_currentRoute.chars
      [] OTHER -> TRUE

Getters == {"items", "itemsAsVariant", "itemsInGroup", "groups", "getPageUrl", "currentRoute"}

\* C13: the value a getter returns equals the stored state of the moment of
\* the call, and no buffer of it is a buffer of the stored state or of a
\* plugin, at the call and after every later change of the stored state.
C13_GettersReturnCopies ==
    /\ call.op \in Getters => ReturnedValueIsStored
    /\ returned # NoValue => Buffers(returned) \cap (StoredBuffers \cup {PluginBuf}) = {}

\* itemsInGroup has returned the item of group A, whose badge the service
\* holds in a buffer of the plugin, and the menu has changed since.
C13_Witness ==
    /\ returned.kind = "QVariantList"
    /\ Len(returned.elems) = 1
    /\ At(returned.elems[1], ItemKey.badge).data = Badge7
    /\ At(returned.elems[1], ItemKey.badge).buf # NoBuf
    /\ At(returned.elems[1], ItemKey.group).data = GroupA
    /\ call.op = "registerItem"
    /\ Len(m_items) = 2
    /\ Len(m_routes) = 1
    /\ \E i \in 1..Len(m_items) : m_items[i].badge.heap = "plugin"

-----------------------------------------------------------------------------
(* updateItem, setBadge and setEnabled on one item and on an absent id *)

LabelKey == "label"
IconJ == <<74>>
RouteS == <<115>>

\* One update map for every key updateItem tests, the key a caller uses for
\* the label, and the pair that moves the item and then writes its group.
FieldUpdates ==
    { [k \in {key} |-> VString(PluginStr(val))] :
          key \in {"title", LabelKey}, val \in {LabelM} }
    \cup { [k \in {"icon"} |-> VString(PluginStr(IconJ))],
           [k \in {"route"} |-> VString(PluginStr(RouteS))],
           [k \in {"order"} |-> VInt(2)],
           [k \in {"enabled"} |-> VBool(FALSE)],
           [k \in {"badge"} |-> VString(PluginStr(Badge7))],
           [k \in {"group"} |-> VString(PluginStr(GroupC))],
           [k \in {"order", "group"} |->
                 IF k = "order" THEN VInt(2) ELSE VString(PluginStr(GroupC))] }

\* Items a and b are offered; c never is, so every call on it finds no item.
OfferedItems == {PluginItem(IdA, GroupA, 1), PluginItem(IdB, GroupA, 1)}
TouchedIds == {IdA, IdC}

Offer == RegisterItemOf(OfferedItems)
Update == UpdateItemOf(TouchedIds, FieldUpdates)
Badge == SetBadgeOf(TouchedIds, {Badge7})
Enable == SetEnabledOf(TouchedIds)

NextUpdate ==
    \/ Offer
    \/ Update
    \/ Badge
    \/ Enable

SpecUpdate == Init /\ [][NextUpdate]_vars

ItemWithId(list, id) == list[CHOOSE i \in 1..Len(list) : list[i].id.chars = id]

\* The value an item has after the updates: a field named by a key holds the
\* value supplied under that key, every other field is as it was.
Updated(old, updates) ==
    LET Text(key, was) ==
            IF contains(updates, key) THEN toString(value(updates, key)).chars ELSE was
    IN [id |-> old.id.chars,
        label |-> Text(LabelKey, old.label.chars),
        icon |-> Text("icon", old.icon.chars),
        route |-> Text("route", old.route.chars),
        group |-> Text("group", old.group.chars),
        order |-> IF contains(updates, "order")
                  THEN toInt(value(updates, "order")) ELSE old.order,
        enabled |-> IF contains(updates, "enabled")
                    THEN toBool(value(updates, "enabled")) ELSE old.enabled,
        badge |-> Text("badge", old.badge.chars),
        pluginId |-> old.pluginId.chars]

\* C21: after updateItem(id, updates) on an existing id, each of the fields
\* label, icon, route, order, enabled, badge and group that is named by a key
\* of updates holds the value supplied under that key, and each field that is
\* not named by a key is unchanged.
C21_UpdateSetsNamedFields ==
    [][ (call'.op = "updateItem" /\ HasId(m_items, call'.arg))
            => /\ HasId(m_items', call'.arg)
               /\ ItemValue(ItemWithId(m_items', call'.arg))
                      = Updated(ItemWithId(m_items, call'.arg), call'.updates) ]_vars

\* C22: updateItem, setBadge and setEnabled on an id that is not in the menu
\* return false (updateItem) and leave the item list and the index map as
\* they were, and menuChanged is not emitted.
C22_AbsentIdIsRefused ==
    [][ (call'.op \in {"updateItem", "setBadge", "setEnabled"}
            /\ ~HasId(m_items, call'.arg))
            => /\ call'.op = "updateItem" => ret'.ok = FALSE
               /\ m_items' = m_items
               /\ m_indexMap' = m_indexMap
               /\ menuChanged' = <<>> ]_vars

\* updateItem of "order" has just been refused for the id that was never
\* registered, with both offered items in the menu.
C22_Witness ==
    /\ call.op = "updateItem"
    /\ call.arg = IdC
    /\ contains(call.updates, "order")
    /\ ret.ok = FALSE
    /\ menuChanged = <<>>
    /\ Len(m_items) = 2
    /\ ~HasId(m_items, IdC)

-----------------------------------------------------------------------------
(* The menu lock.  Each MenuService method is a sequence of statements; the *)
(* threads run their calls statement by statement.  The handler of          *)
(* menuChanged lives in the ui thread: an emission in that thread runs it   *)
(* inside the emit statement, where it calls back into the service; an      *)
(* emission in the worker thread is queued for the ui thread.               *)

UiThread == "ui"

statementsEmitLocked(op) ==
    CASE op = "registerItem" -> <<"check", "lock", "write", "emit">>
      [] op \in {"unregisterItem", "unregisterPlugin", "updateItem", "setBadge"}
            -> <<"lock", "write", "emit">>
      [] OTHER -> <<"lock", "read">>

\* What each method does with m_mutex, m_items and menuChanged, in order.
\* The QMutexLocker releases the mutex at "unlock", or when the method returns.
statements(op) ==
    CASE op = "registerItem" -> <<"check", "lock", "write", "unlock", "emit">>
      [] op \in {"unregisterItem", "unregisterPlugin", "updateItem", "setBadge"}
            -> <<"lock", "write", "unlock", "emit">>
      [] OTHER -> <<"lock", "read">>

\* The calls made by the threads and by the handler.
MenuCalls ==
    { [op |-> "registerItem", arg |-> IdA], [op |-> "registerItem", arg |-> <<>>],
      [op |-> "unregisterItem", arg |-> IdA], [op |-> "unregisterPlugin", arg |-> PluginP],
      [op |-> "updateItem", arg |-> IdA], [op |-> "setBadge", arg |-> IdA],
      [op |-> "items", arg |-> <<>>], [op |-> "count", arg |-> <<>>] }

\* The statement "write" of a method, on (m_items, m_indexMap).
effect(op, arg, list, index) ==
    CASE op = "registerItem" -> registerItem(list, index, PluginItem(arg, GroupA, 1))
      [] op = "unregisterItem" -> unregisterItem(list, index, PluginStr(arg))
      [] op = "unregisterPlugin" -> unregisterPlugin(list, index, PluginStr(arg))
      [] op = "updateItem" ->
            updateItem(list, index, PluginStr(arg),
                       [k \in {"badge"} |-> VString(PluginStr(Badge7))])
      [] op = "setBadge" -> setBadge(list, index, PluginStr(arg), NullStr)

Frame(c) == [op |-> c.op, arg |-> c.arg, pc |-> 1, locks |-> FALSE, inHandler |-> FALSE]

Top(t) == stack[t][Len(stack[t])]
AtStatement(t, st) ==
    /\ stack[t] # <<>>
    /\ t \notin blocked
    /\ Top(t).pc <= Len(statements(Top(t).op))
    /\ statements(Top(t).op)[Top(t).pc] = st
SetTop(t, f) == stack' = [stack EXCEPT ![t][Len(stack[t])] = f]
Advance(t) == SetTop(t, [Top(t) EXCEPT !.pc = @ + 1])
\* The method returns: its QMutexLocker releases the mutex if it still holds it.
Leave(t) ==
    /\ stack' = [stack EXCEPT ![t] = SubSeq(@, 1, Len(@) - 1)]
    /\ m_mutex' = IF Top(t).locks THEN "none" ELSE m_mutex

lockFrame == <<navVars, appVars, copyVars, returned, raceVars, moduleVars, call, ret,
               registered, onlyRegistered>>

\* A thread calls a method, or the handler does while it is being notified.
Enter(t) ==
    \E c \in MenuCalls :
        /\ t \notin blocked
        /\ \/ stack[t] = <<>>
           \/ /\ stack[t] # <<>>
              /\ t = UiThread
              /\ Top(t).inHandler
              /\ Len(stack[t]) < MaxNesting
        /\ stack' = [stack EXCEPT ![t] = Append(@, Frame(c))]
        /\ UNCHANGED <<m_items, m_indexMap, menuChanged, m_mutex, blocked, unguarded,
                       emittedLocked, lockFrame>>

\* "if (item.id.isEmpty()) return false;"
CheckId(t) ==
    /\ AtStatement(t, "check")
    /\ IF Top(t).arg = <<>>
       THEN Leave(t)
       ELSE Advance(t) /\ UNCHANGED m_mutex
    /\ UNCHANGED <<m_items, m_indexMap, menuChanged, blocked, unguarded,
                   emittedLocked, lockFrame>>

\* "QMutexLocker locker(&m_mutex);": the thread takes the free mutex, waits
\* while another thread holds it, and waits for ever if an outer call of its
\* own holds it (QMutex is not recursive).
Lock(t) ==
    /\ AtStatement(t, "lock")
    /\ m_mutex \in {"none", t}
    /\ IF m_mutex = "none"
       THEN /\ m_mutex' = t
            /\ SetTop(t, [Top(t) EXCEPT !.pc = @ + 1, !.locks = TRUE])
            /\ UNCHANGED blocked
       ELSE /\ blocked' = blocked \cup {t}
            /\ UNCHANGED <<m_mutex, stack>>
    /\ UNCHANGED <<m_items, m_indexMap, menuChanged, unguarded, emittedLocked, lockFrame>>

\* The part of a mutating method between the lock and "locker.unlock()";
\* the paths that change nothing return from here.
WriteList(t) ==
    /\ AtStatement(t, "write")
    /\ LET r == effect(Top(t).op, Top(t).arg, m_items, m_indexMap)
       IN /\ m_items' = r.items
          /\ m_indexMap' = r.index
          /\ IF r.emit = <<>>
             THEN Leave(t)
             ELSE Advance(t) /\ UNCHANGED m_mutex
    /\ unguarded' = (unguarded \/ m_mutex # t)
    /\ UNCHANGED <<menuChanged, blocked, emittedLocked, lockFrame>>

\* The body of a getter.
ReadList(t) ==
    /\ AtStatement(t, "read")
    /\ Advance(t)
    /\ unguarded' = (unguarded \/ m_mutex # t)
    /\ UNCHANGED <<m_items, m_indexMap, menuChanged, m_mutex, blocked,
                   emittedLocked, lockFrame>>

\* "locker.unlock();"
Unlock(t) ==
    /\ AtStatement(t, "unlock")
    /\ m_mutex' = IF Top(t).locks THEN "none" ELSE m_mutex
    /\ SetTop(t, [Top(t) EXCEPT !.pc = @ + 1, !.locks = FALSE])
    /\ UNCHANGED <<m_items, m_indexMap, menuChanged, blocked, unguarded,
                   emittedLocked, lockFrame>>

\* "emit menuChanged();" begins: the handler reads the list as it is now.
EmitBegin(t) ==
    /\ AtStatement(t, "emit")
    /\ ~Top(t).inHandler
    /\ SetTop(t, [Top(t) EXCEPT !.inHandler = TRUE])
    /\ menuChanged' = <<m_items>>
    /\ emittedLocked' = (emittedLocked \/ m_mutex = t)
    /\ UNCHANGED <<m_items, m_indexMap, m_mutex, blocked, unguarded, lockFrame>>

\* The handler has returned.
EmitEnd(t) ==
    /\ AtStatement(t, "emit")
    /\ Top(t).inHandler
    /\ SetTop(t, [Top(t) EXCEPT !.pc = @ + 1, !.inHandler = FALSE])
    /\ UNCHANGED <<m_items, m_indexMap, menuChanged, m_mutex, blocked, unguarded,
                   emittedLocked, lockFrame>>

\* The end of the method.
Return(t) ==
    /\ stack[t] # <<>>
    /\ t \notin blocked
    /\ Top(t).pc > Len(statements(Top(t).op))
    /\ Leave(t)
    /\ UNCHANGED <<m_items, m_indexMap, menuChanged, blocked, unguarded,
                   emittedLocked, lockFrame>>

NextLock ==
    \E t \in Callers :
        \/ Enter(t)
        \/ CheckId(t)
        \/ Lock(t)
        \/ WriteList(t)
        \/ ReadList(t)
        \/ Unlock(t)
        \/ EmitBegin(t)
        \/ EmitEnd(t)
        \/ Return(t)

SpecLock == Init /\ [][NextLock]_vars

\* C23: no menu operation emits menuChanged while it holds the menu lock, so
\* a handler that calls back into the service during the notification never
\* waits for a lock its own thread holds, and every read or write of the item
\* list is made by a thread that holds the lock.
C23_NoEmitUnderLock ==
    /\ ~emittedLocked
    /\ blocked = {}
    /\ ~unguarded

\* The handler of an updateItem notification has called registerItem, and that
\* call holds the lock.
C23_Witness ==
    /\ Len(stack[UiThread]) = 2
    /\ stack[UiThread][1].op = "updateItem"
    /\ stack[UiThread][1].inHandler
    /\ stack[UiThread][2].op = "registerItem"
    /\ stack[UiThread][2].locks
    /\ m_mutex = UiThread

-----------------------------------------------------------------------------
(* The rules module in a host that binds only some of the capabilities *)

\* The two capabilities registerRoutes looks up.
LookedUp ==
    {Binding("INavigation", "navigation", "host"), Binding("IMenu", "menu", "host")}

\* An item of another plugin under the id the rules module uses, and an
\* item that has nothing to do with it.
RivalItems == {[RulesItem EXCEPT !.pluginId = PluginStr(PluginP)], PluginItem(IdA, GroupA, 1)}

rulesFrame == <<appPc, modQueue, phaseResult, modFault, m_pluginManager,
                m_extraPluginPaths, pluginDirs, pathQueue, modSource, rejected,
                regRet, pmCalls, stepLog, missed, todo, copyVars, returned,
                raceVars, lockVars, navigation>>

\* The host adds a capability before the module is started.
BindCapability ==
    /\ modState[RulesModule] \in {"Undiscovered", "Loaded", "Initialized"}
    /\ \E b \in LookedUp :
          /\ ~bound(registry, b.cap)
          /\ registry' = add(registry, b).reg
    /\ UNCHANGED <<modState, menuVars, navVars, call, ret, rules, pageFound, crashed,
                   rulesFrame>>

\* Another plugin registers a menu item.
RivalRegisters == RegisterItemOf(RivalItems)

\* The shell looks the page of the rules route up.
LookupRules ==
    /\ call' = Call("getPageUrl", RulesId, NoUpdates)
    /\ ret' = Ret(TRUE, <<>>, getPageUrl(m_routes, PluginStr(RulesId)))
    /\ navigationChanged' = <<>>
    /\ UNCHANGED <<m_routes, m_currentRoute, routeLog, menuVars, appVars, libVars>>

\* The plugin manager takes the module from one state to the next.
RulesLifecycle(from, phase, to) ==
    /\ modState[RulesModule] = from
    /\ modState' = [modState EXCEPT ![RulesModule] = to]
    /\ RulesStep(phase)
    /\ UNCHANGED <<registry, rulesFrame>>

RulesLoad == RulesLifecycle("Undiscovered", "load", StateAfter("load"))

RulesInitialize ==
    RulesLifecycle(StateBefore("initialize"), "initialize", StateAfter("initialize"))

RulesStart == RulesLifecycle(StateBefore("start"), "start", StateAfter("start"))

RulesStop == RulesLifecycle("Started", "stop", teardownStep("stop", "Started"))

RulesUnload == RulesLifecycle("Stopped", "unload", teardownStep("unload", "Stopped"))

NextRules ==
    \/ BindCapability
    \/ RivalRegisters
    \/ LookupRules
    \/ RulesLoad
    \/ RulesInitialize
    \/ RulesStart
    \/ RulesStop
    \/ RulesUnload

SpecRules == Init /\ [][NextRules]_vars

\* C25: the start step of the rules module returns success and calls through
\* no null service pointer whatever is bound; with INavigation not bound, or
\* the page file not found, it registers no route, and with IMenu not bound
\* it registers no menu item, notifies nothing and connects no handler.
C25_AbsentServicesHandled ==
    [][modState[RulesModule] = "Initialized" /\ modState'[RulesModule] = "Started" =>
          /\ call'.op = "start"
          /\ ret'.ok
          /\ ~crashed'
          /\ (~bound(registry, "INavigation") \/ ~pageFound') =>
                 UNCHANGED <<m_routes, routeLog>>
          /\ ~bound(registry, "IMenu") =>
                 /\ UNCHANGED <<m_items, m_indexMap>>
                 /\ menuChanged' = <<>>
                 /\ ~rules'.connected]_vars

\* The module has been started with IMenu bound and INavigation not: it has
\* its menu item and no route.
C25_Witness ==
    /\ modState[RulesModule] = "Started"
    /\ call.op = "start"
    /\ ~bound(registry, "INavigation")
    /\ bound(registry, "IMenu")
    /\ RulesItems # <<>>
    /\ m_routes = <<>>
    /\ ret.ok

====
